---- MODULE Spec2Model ----
(***************************************************************************)
(* Model of the annotation-to-markdown formatter of kavita-to-obsidian     *)
(* (formatters/markdown.ts) and of the sync that fetches the annotations,  *)
(* formats them and writes the document (services/AnnotationSyncer.ts,     *)
(* services/ObsidianAdapter.ts).  A JavaScript string is a sequence of     *)
(* one-character strings; a nullable string is None (<<>>) or Some(s)      *)
(* (<<s>>); a document is the string toMarkdown returns.                   *)
(***************************************************************************)
EXTENDS Integers, Sequences, FiniteSets, TLC

VARIABLES
  annotations,     \* the annotation list passed to the formatter
  options,         \* the FormatOptions
  chapterInfoMap,  \* the optional ChapterInfoMap
  clock,           \* milliseconds since the epoch, read by new Date()
  lastCall,        \* the formatter function called last
  arg,             \* which annotation or series group it was called on
  result,          \* what it returned
  vault,           \* the vault: the content of the file at each path, if any
  run,             \* the local state of each syncToFile run
  started          \* how many syncToFile runs have been started

formatterVars == <<annotations, options, chapterInfoMap, clock, lastCall, arg, result>>

syncVars == <<vault, run, started>>

vars == <<annotations, options, chapterInfoMap, clock, lastCall, arg, result,
          vault, run, started>>

----------------------------------------------------------------------------
(* Bounds of the model. *)

MaxAnnotations == 3
MaxTextLen == 4
MaxCommentLen == 3
MaxPage == 1
MaxClock == 1

\* longest string handed to toSlug
MaxSlugLen == 4

\* how many syncToFile runs are started
MaxSyncs == 2

----------------------------------------------------------------------------
(* Strings. *)

None == <<>>
Some(s) == <<s>>
IsNone(o) == Len(o) = 0
IsSome(o) == Len(o) = 1
Value(o) == o[1]

\* a ?? b on a nullable string a
OrElse(o, fallback) == IF IsSome(o) THEN Value(o) ELSE fallback

NL == "\n"

RECURSIVE SeqsUpTo(_, _)
\* every string over alphabet of length at most n
SeqsUpTo(alphabet, n) ==
  IF n = 0 THEN {<<>>}
  ELSE LET shorter == SeqsUpTo(alphabet, n - 1)
       IN shorter \cup {Append(s, c) : s \in shorter, c \in alphabet}

RECURSIVE Concat(_)
\* the concatenation of a sequence of strings
Concat(ss) == IF ss = <<>> THEN <<>> ELSE Head(ss) \o Concat(Tail(ss))

RECURSIVE Join(_, _)
\* Array.prototype.join
Join(ss, sep) ==
  IF ss = <<>> THEN <<>>
  ELSE IF Len(ss) = 1 THEN ss[1]
  ELSE ss[1] \o sep \o Join(Tail(ss), sep)

\* String.prototype.split on a one-character separator: the pieces between
\* consecutive occurrences of sep (and the two ends of s)
Split(s, sep) ==
  LET cuts == <<0>> \o SelectSeq([i \in 1..Len(s) |-> i], LAMBDA i : s[i] = sep)
                    \o <<Len(s) + 1>>
  IN [k \in 1..(Len(cuts) - 1) |-> SubSeq(s, cuts[k] + 1, cuts[k + 1] - 1)]

WhiteSpace == {" ", "\n", "\t", "\r"}

RECURSIVE TrimStart(_)
TrimStart(s) ==
  IF s # <<>> /\ Head(s) \in WhiteSpace THEN TrimStart(Tail(s)) ELSE s

RECURSIVE TrimEnd(_)
TrimEnd(s) ==
  IF s # <<>> /\ s[Len(s)] \in WhiteSpace
  THEN TrimEnd(SubSeq(s, 1, Len(s) - 1)) ELSE s

\* String.prototype.trim
Trim(s) == TrimEnd(TrimStart(s))

DigitChars == <<"0", "1", "2", "3", "4", "5", "6", "7", "8", "9">>

RECURSIVE Digits(_)
\* String(n) / `${n}` for a non-negative integer n
Digits(n) ==
  IF n < 10 THEN <<DigitChars[n + 1]>>
  ELSE Append(Digits(n \div 10), DigitChars[(n % 10) + 1])

IsDigit(c) == \E d \in 1..10 : DigitChars[d] = c

DigitValue(c) == (CHOOSE d \in 1..10 : DigitChars[d] = c) - 1

RECURSIVE ParseNat(_)
ParseNat(s) ==
  IF s = <<>> THEN 0
  ELSE 10 * ParseNat(SubSeq(s, 1, Len(s) - 1)) + DigitValue(s[Len(s)])

StartsWith(s, prefix) ==
  Len(s) >= Len(prefix) /\ SubSeq(s, 1, Len(prefix)) = prefix

\* String.prototype.includes
Includes(s, t) ==
  \E i \in 0..(Len(s) - Len(t)) : SubSeq(s, i + 1, i + Len(t)) = t

----------------------------------------------------------------------------
(* String literals of markdown.ts. *)

\* "> "
LitQuote == <<">", " ">>

\* "*Note:* "
LitNote == <<"*", "N", "o", "t", "e", ":", "*", " ">>

\* "<small>Page "
LitPageOpen == <<"<", "s", "m", "a", "l", "l", ">", "P", "a", "g", "e", " ">>

\* "</small>"
LitPageClose == <<"<", "/", "s", "m", "a", "l", "l", ">">>

\* "Series "
LitSeries == <<"S", "e", "r", "i", "e", "s", " ">>

\* "Chapter "
LitChapter == <<"C", "h", "a", "p", "t", "e", "r", " ">>

\* "Library "
LitLibrary == <<"L", "i", "b", "r", "a", "r", "y", " ">>

\* "[["
LitLinkOpen == <<"[", "[">>

\* "]]"
LitLinkClose == <<"]", "]">>

\* "### "
LitH3 == <<"#", "#", "#", " ">>

\* "**Author:** "
LitAuthor == <<"*", "*", "A", "u", "t", "h", "o", "r", ":", "*", "*", " ">>

\* ", "
LitCommaSpace == <<",", " ">>

\* "**Book:** "
LitBook == <<"*", "*", "B", "o", "o", "k", ":", "*", "*", " ">>

\* "**Genres:** "
LitGenres == <<"*", "*", "G", "e", "n", "r", "e", "s", ":", "*", "*", " ">>

\* "**Tags:** "
LitTags == <<"*", "*", "T", "a", "g", "s", ":", "*", "*", " ">>

\* "---"
LitRule == <<"-", "-", "-">>

\* "title: Kavita Annotations"
LitFmTitle ==
  <<"t", "i", "t", "l", "e", ":", " ", "K", "a", "v", "i", "t", "a", " ",
    "A", "n", "n", "o", "t", "a", "t", "i", "o", "n", "s">>

\* "tags:"
LitFmTags == <<"t", "a", "g", "s", ":">>

\* "  - annotations"
LitFmTagAnnotations ==
  <<" ", " ", "-", " ", "a", "n", "n", "o", "t", "a", "t", "i", "o", "n",
    "s">>

\* "  - kavita"
LitFmTagKavita == <<" ", " ", "-", " ", "k", "a", "v", "i", "t", "a">>

\* "updated: "
LitFmUpdated == <<"u", "p", "d", "a", "t", "e", "d", ":", " ">>

\* "## "
LitH2 == <<"#", "#", " ">>

\* "**Series:** "
LitSeriesLink ==
  <<"*", "*", "S", "e", "r", "i", "e", "s", ":", "*", "*", " ">>

\* "**Library:** "
LitLibraryLine ==
  <<"*", "*", "L", "i", "b", "r", "a", "r", "y", ":", "*", "*", " ">>

\* "# Kavita Annotations"
LitH1Title ==
  <<"#", " ", "K", "a", "v", "i", "t", "a", " ", "A", "n", "n", "o", "t",
    "a", "t", "i", "o", "n", "s">>

\* "*No annotations found.*"
LitNoAnnotations ==
  <<"*", "N", "o", " ", "a", "n", "n", "o", "t", "a", "t", "i", "o", "n",
    "s", " ", "f", "o", "u", "n", "d", ".", "*">>

\* "#### Chapter: "
LitH4Chapter ==
  <<"#", "#", "#", "#", " ", "C", "h", "a", "p", "t", "e", "r", ":", " ">>

\* "Unknown Chapter"
LitUnknownChapter ==
  <<"U", "n", "k", "n", "o", "w", "n", " ", "C", "h", "a", "p", "t", "e",
    "r">>

\* "1970-01-01T00:00:00."
LitEpochPrefix ==
  <<"1", "9", "7", "0", "-", "0", "1", "-", "0", "1", "T", "0", "0", ":",
    "0", "0", ":", "0", "0", ".">>

\* "{}"
LitBraces == <<"{", "}">>

----------------------------------------------------------------------------
(* Per-annotation rendering and field resolution. *)

\* mutant of Blockquote: the text is quoted as one line, `> ${content}`
Blockquote_Unsplit(content) == LitQuote \o content

\* `> ${line}` for every line of the highlighted text, joined by "\n"
Blockquote(content) ==
  LET parts == Split(content, NL)
  IN Join([i \in 1..Len(parts) |-> LitQuote \o parts[i]], <<NL>>)

\* mutant of HasComment: the comment is compared without being trimmed
HasComment_Untrimmed(comment) ==
  /\ IsSome(comment)
  /\ Value(comment) # <<>>
  /\ Value(comment) # LitBraces

\* annotation.comment && comment.trim() !== "" && comment.trim() !== "{}"
HasComment(comment) ==
  /\ IsSome(comment)
  /\ Value(comment) # <<>>
  /\ Trim(Value(comment)) # <<>>
  /\ Trim(Value(comment)) # LitBraces

\* mutant of NoteLines: the note shows the trimmed comment
NoteLines_Trimmed(annotation, opts) ==
  IF opts.includeComments /\ HasComment(annotation.comment)
  THEN << <<>>, LitNote \o Trim(Value(annotation.comment)) >>
  ELSE <<>>

NoteLines(annotation, opts) ==
  IF opts.includeComments /\ HasComment(annotation.comment)
  THEN << <<>>, LitNote \o Value(annotation.comment) >>
  ELSE <<>>

\* mutant of PageLines: page 0 is shown too
PageLines_FromZero(annotation) ==
  IF annotation.pageNumber >= 0
  THEN << <<>>, LitPageOpen \o Digits(annotation.pageNumber) \o LitPageClose >>
  ELSE <<>>

PageLines(annotation) ==
  IF annotation.pageNumber > 0
  THEN << <<>>, LitPageOpen \o Digits(annotation.pageNumber) \o LitPageClose >>
  ELSE <<>>

\* mutant of formatAnnotation: spoilers are rendered like any annotation
formatAnnotation_WithSpoilers(annotation, opts) ==
  Some(Join(<<Blockquote(OrElse(annotation.selectedText, <<>>))>>
              \o NoteLines(annotation, opts)
              \o PageLines(annotation),
            <<NL>>))

\* Option<string>: None when the annotation is omitted
formatAnnotation(annotation, opts) ==
  IF annotation.containsSpoiler /\ ~opts.includeSpoilers
  THEN None
  ELSE Some(Join(<<Blockquote(OrElse(annotation.selectedText, <<>>))>>
                   \o NoteLines(annotation, opts)
                   \o PageLines(annotation),
                 <<NL>>))

getSeriesName(annotation) ==
  OrElse(annotation.seriesName, LitSeries \o Digits(annotation.seriesId))

getChapterTitle(annotation) ==
  OrElse(annotation.chapterTitle, LitChapter \o Digits(annotation.chapterId))

getLibraryName(annotation) ==
  OrElse(annotation.libraryName, LitLibrary \o Digits(annotation.libraryId))

\* chapterInfoMap is None (absent) or Some(function from chapter ids to info)
HasChapterInfo(map, chapterId) ==
  IsSome(map) /\ chapterId \in DOMAIN Value(map)

getBookTitle_SeriesOnly(annotation, map) == getSeriesName(annotation)

getBookTitle(annotation, map) ==
  IF HasChapterInfo(map, annotation.chapterId)
  THEN Value(map)[annotation.chapterId].bookTitle
  ELSE getSeriesName(annotation)

getBookAuthors_Last(anns, map) ==
  IF anns = <<>> \/ IsNone(map) THEN <<>>
  ELSE IF HasChapterInfo(map, anns[Len(anns)].chapterId)
       THEN Value(map)[anns[Len(anns)].chapterId].authors
       ELSE <<>>

getBookAuthors(anns, map) ==
  IF anns = <<>> \/ IsNone(map) THEN <<>>
  ELSE IF HasChapterInfo(map, anns[1].chapterId)
       THEN Value(map)[anns[1].chapterId].authors
       ELSE <<>>

getBookGenres(anns, map) ==
  IF anns = <<>> \/ IsNone(map) THEN <<>>
  ELSE IF HasChapterInfo(map, anns[1].chapterId)
       THEN Value(map)[anns[1].chapterId].genres
       ELSE <<>>

getBookSortOrder(bookTitle, anns, map) ==
  IF anns = <<>> \/ IsNone(map) THEN 0
  ELSE IF HasChapterInfo(map, anns[1].chapterId)
       THEN Value(map)[anns[1].chapterId].sortOrder
       ELSE 0

----------------------------------------------------------------------------
(* Grouping and ordering.  Array.groupBy fills a plain object whose own    *)
(* properties are created in first-seen key order; Record.toEntries        *)
(* enumerates the object's own keys the way Object.keys does: the keys     *)
(* that are array indices in ascending numeric order, then the other       *)
(* string keys in creation order.                                          *)

KeyIndex(rec, key) ==
  IF \E i \in 1..Len(rec) : rec[i][1] = key
  THEN CHOOSE i \in 1..Len(rec) : rec[i][1] = key
  ELSE 0

RECURSIVE GroupByKeys_Overwrite(_, _, _)
\* mutant of GroupByKeys: a repeated key replaces its group instead of growing it
GroupByKeys_Overwrite(xs, keys, out) ==
  IF xs = <<>> THEN out
  ELSE LET i == KeyIndex(out, Head(keys))
       IN GroupByKeys_Overwrite(Tail(xs), Tail(keys),
            IF i = 0
            THEN Append(out, <<Head(keys), <<Head(xs)>> >>)
            ELSE [out EXCEPT ![i] = <<out[i][1], <<Head(xs)>> >>])

RECURSIVE GroupByKeys(_, _, _)
\* out[k].push(a) when k is an own property of out, else out[k] = [a]
GroupByKeys(xs, keys, out) ==
  IF xs = <<>> THEN out
  ELSE LET i == KeyIndex(out, Head(keys))
       IN GroupByKeys(Tail(xs), Tail(keys),
            IF i = 0
            THEN Append(out, <<Head(keys), <<Head(xs)>> >>)
            ELSE [out EXCEPT ![i] = <<out[i][1], Append(out[i][2], Head(xs))>>])

\* Array.groupBy(xs, f), keys[i] = f(xs[i])
GroupBy(xs, keys) == GroupByKeys(xs, keys, <<>>)

\* a canonical numeric string below 2^32 - 1; every such string of at most
\* nine digits is one, and longer keys do not occur in the model
IsArrayIndex(key) ==
  /\ key # <<>>
  /\ \A i \in 1..Len(key) : IsDigit(key[i])
  /\ (Len(key) = 1 \/ key[1] # "0")
  /\ Len(key) <= 9

RECURSIVE SortByIndex(_)
\* entries with array-index keys, ascending by numeric value
SortByIndex(entries) ==
  IF entries = <<>> THEN <<>>
  ELSE LET m == CHOOSE i \in 1..Len(entries) :
                  \A j \in 1..Len(entries) :
                    ParseNat(entries[i][1]) <= ParseNat(entries[j][1])
       IN <<entries[m]>>
            \o SortByIndex([j \in 1..(Len(entries) - 1) |->
                              IF j < m THEN entries[j] ELSE entries[j + 1]])

\* Record.toEntries(rec)
ToEntries(rec) ==
  SortByIndex(SelectSeq(rec, LAMBDA e : IsArrayIndex(e[1])))
    \o SelectSeq(rec, LAMBDA e : ~IsArrayIndex(e[1]))

groupBySeriesId(anns) ==
  GroupBy(anns, [i \in 1..Len(anns) |-> Digits(anns[i].seriesId)])

groupByChapterId(anns) ==
  GroupBy(anns, [i \in 1..Len(anns) |-> Digits(anns[i].chapterId)])

groupByBookTitle(anns, map) ==
  GroupBy(anns, [i \in 1..Len(anns) |-> getBookTitle(anns[i], map)])

\* Number.Order on the book sort order of an entry [title, annotations]
BookOrderLessEq(e1, e2, map) ==
  getBookSortOrder(e1[1], e1[2], map) <= getBookSortOrder(e2[1], e2[2], map)

RECURSIVE InsertSorted(_, _, _)
\* e placed after every entry that is not greater than it
InsertSorted(sorted, e, map) ==
  IF sorted = <<>> THEN <<e>>
  ELSE IF BookOrderLessEq(Head(sorted), e, map)
       THEN <<Head(sorted)>> \o InsertSorted(Tail(sorted), e, map)
       ELSE <<e>> \o sorted

RECURSIVE SortEntries(_, _, _)
\* Array.sort(bookOrder): a stable sort of a copy of the entries
SortEntries(entries, sorted, map) ==
  IF entries = <<>> THEN sorted
  ELSE SortEntries(Tail(entries), InsertSorted(sorted, Head(entries), map), map)

\* mutant of getSortedBookGroups: the entries are returned unsorted
getSortedBookGroups_Unsorted(anns, map) == ToEntries(groupByBookTitle(anns, map))

getSortedBookGroups(anns, map) ==
  SortEntries(ToEntries(groupByBookTitle(anns, map)), <<>>, map)

----------------------------------------------------------------------------
(* Slugs, tags, links and header blocks. *)

UpperChars ==
  <<"A", "B", "C", "D", "E", "F", "G", "H", "I", "J", "K", "L", "M",
    "N", "O", "P", "Q", "R", "S", "T", "U", "V", "W", "X", "Y", "Z">>

LowerChars ==
  <<"a", "b", "c", "d", "e", "f", "g", "h", "i", "j", "k", "l", "m",
    "n", "o", "p", "q", "r", "s", "t", "u", "v", "w", "x", "y", "z">>

ToLowerChar(c) ==
  IF \E i \in 1..26 : UpperChars[i] = c
  THEN LowerChars[CHOOSE i \in 1..26 : UpperChars[i] = c]
  ELSE c

\* String.prototype.toLowerCase
ToLowerCase(s) == [i \in 1..Len(s) |-> ToLowerChar(s[i])]

IsSlugChar(c) ==
  \/ \E i \in 1..26 : LowerChars[i] = c
  \/ IsDigit(c)
  \/ c \in WhiteSpace
  \/ c = "-"

RECURSIVE CollapseRuns(_, _, _)
\* replace(/X+/g, "-") for the class X of characters in cls
CollapseRuns(s, cls, inRun) ==
  IF s = <<>> THEN <<>>
  ELSE IF Head(s) \in cls
       THEN (IF inRun THEN <<>> ELSE <<"-">>) \o CollapseRuns(Tail(s), cls, TRUE)
       ELSE <<Head(s)>> \o CollapseRuns(Tail(s), cls, FALSE)

\* mutant of StripEdgeHyphens: only the leading hyphen is removed
StripEdgeHyphens_LeadingOnly(s) ==
  IF s # <<>> /\ Head(s) = "-" THEN Tail(s) ELSE s

\* replace(/^-|-$/g, "")
StripEdgeHyphens(s) ==
  LET a == IF s # <<>> /\ Head(s) = "-" THEN Tail(s) ELSE s
  IN IF a # <<>> /\ a[Len(a)] = "-" THEN SubSeq(a, 1, Len(a) - 1) ELSE a

toSlug(input) ==
  StripEdgeHyphens(
    CollapseRuns(
      CollapseRuns(SelectSeq(ToLowerCase(input), IsSlugChar), WhiteSpace, FALSE),
      {"-"}, FALSE))

makeTag_NoPrefix(value, prefix) == <<"#">> \o toSlug(value)

makeTag(value, prefix) == <<"#">> \o prefix \o toSlug(value)

makeWikilink(value) == LitLinkOpen \o value \o LitLinkClose

generateBookHeader_LinkedAuthors(bookTitle, opts, authors, genres) ==
  <<LitH3 \o bookTitle>>
    \o (IF Len(authors) > 0
        THEN <<LitAuthor
                 \o Join([i \in 1..Len(authors) |-> makeWikilink(authors[i])],
                         LitCommaSpace)>>
        ELSE <<>>)
    \o (IF opts.includeWikilinks
        THEN <<LitBook \o makeWikilink(bookTitle)>>
        ELSE <<>>)
    \o (IF Len(genres) > 0
        THEN <<LitGenres \o Join(genres, LitCommaSpace)>>
        ELSE <<>>)
    \o (IF opts.includeTags /\ Len(genres) > 0
        THEN <<LitTags
                 \o Join([i \in 1..Len(genres) |->
                            makeTag(genres[i], opts.tagPrefix)],
                         <<" ">>)>>
        ELSE <<>>)

generateBookHeader_GenresWithTags(bookTitle, opts, authors, genres) ==
  <<LitH3 \o bookTitle>>
    \o (IF Len(authors) > 0
        THEN IF opts.includeWikilinks
             THEN <<LitAuthor
                      \o Join([i \in 1..Len(authors) |-> makeWikilink(authors[i])],
                              LitCommaSpace)>>
             ELSE <<LitAuthor \o Join(authors, LitCommaSpace)>>
        ELSE <<>>)
    \o (IF opts.includeWikilinks
        THEN <<LitBook \o makeWikilink(bookTitle)>>
        ELSE <<>>)
    \o (IF opts.includeTags /\ Len(genres) > 0
        THEN <<LitGenres \o Join(genres, LitCommaSpace),
               LitTags
                 \o Join([i \in 1..Len(genres) |->
                            makeTag(genres[i], opts.tagPrefix)],
                         <<" ">>)>>
        ELSE <<>>)

generateBookHeader(bookTitle, opts, authors, genres) ==
  <<LitH3 \o bookTitle>>
    \o (IF Len(authors) > 0
        THEN IF opts.includeWikilinks
             THEN <<LitAuthor
                      \o Join([i \in 1..Len(authors) |-> makeWikilink(authors[i])],
                              LitCommaSpace)>>
             ELSE <<LitAuthor \o Join(authors, LitCommaSpace)>>
        ELSE <<>>)
    \o (IF opts.includeWikilinks
        THEN <<LitBook \o makeWikilink(bookTitle)>>
        ELSE <<>>)
    \o (IF Len(genres) > 0
        THEN <<LitGenres \o Join(genres, LitCommaSpace)>>
        ELSE <<>>)
    \o (IF opts.includeTags /\ Len(genres) > 0
        THEN <<LitTags
                 \o Join([i \in 1..Len(genres) |->
                            makeTag(genres[i], opts.tagPrefix)],
                         <<" ">>)>>
        ELSE <<>>)

\* Date.prototype.toISOString for a clock of fewer than 1000 ms after the epoch
toISOString(ms) ==
  LitEpochPrefix
    \o (IF ms < 10 THEN <<"0", "0">> ELSE IF ms < 100 THEN <<"0">> ELSE <<>>)
    \o Digits(ms) \o <<"Z">>

generateFrontmatter_AlwaysTags(opts, now) ==
  Join(<<LitRule, LitFmTitle, LitFmTags, LitFmTagAnnotations, LitFmTagKavita,
         LitFmUpdated \o toISOString(now), LitRule>>,
       <<NL>>)

generateFrontmatter(opts, now) ==
  Join(<<LitRule, LitFmTitle>>
         \o (IF opts.includeTags
             THEN <<LitFmTags, LitFmTagAnnotations, LitFmTagKavita>>
             ELSE <<>>)
         \o <<LitFmUpdated \o toISOString(now), LitRule>>,
       <<NL>>)

generateSeriesHeader_WithAuthors(firstAnnotation, opts, metadata) ==
  <<LitH2 \o getSeriesName(firstAnnotation)>>
    \o (IF opts.includeWikilinks
        THEN <<LitSeriesLink \o makeWikilink(getSeriesName(firstAnnotation))>>
        ELSE <<>>)
    \o <<LitLibraryLine \o getLibraryName(firstAnnotation)>>
    \o (IF IsSome(metadata)
        THEN <<LitAuthor \o Join(Value(metadata).writers, LitCommaSpace)>>
        ELSE <<>>)

\* the third argument, the series metadata, is accepted and never read
generateSeriesHeader(firstAnnotation, opts, metadata) ==
  <<LitH2 \o getSeriesName(firstAnnotation)>>
    \o (IF opts.includeWikilinks
        THEN <<LitSeriesLink \o makeWikilink(getSeriesName(firstAnnotation))>>
        ELSE <<>>)
    \o <<LitLibraryLine \o getLibraryName(firstAnnotation)>>

----------------------------------------------------------------------------
(* Document assembly. *)

AnnotationLines_Gaps(anns, opts) ==
  Concat([i \in 1..Len(anns) |->
            IF IsSome(formatAnnotation(anns[i], opts))
            THEN <<Value(formatAnnotation(anns[i], opts)), <<>>, LitRule, <<>> >>
            ELSE << <<>>, LitRule, <<>> >>])

\* filterMap(formatAnnotation) then flatMap to [formatted, "", "---", ""]
AnnotationLines(anns, opts) ==
  Concat([i \in 1..Len(anns) |->
            IF IsSome(formatAnnotation(anns[i], opts))
            THEN <<Value(formatAnnotation(anns[i], opts)), <<>>, LitRule, <<>> >>
            ELSE <<>>])

\* mutant of ChapterLines: a chapter with no rendered annotation gets no
\* header
ChapterLines_SkipEmpty(chapterAnnotations, opts) ==
  IF AnnotationLines(chapterAnnotations, opts) = <<>> THEN <<>>
  ELSE <<LitH4Chapter \o getChapterTitle(chapterAnnotations[1]), <<>> >>
         \o AnnotationLines(chapterAnnotations, opts)

ChapterLines(chapterAnnotations, opts) ==
  <<LitH4Chapter
      \o (IF chapterAnnotations # <<>>
          THEN getChapterTitle(chapterAnnotations[1])
          ELSE LitUnknownChapter),
    <<>> >>
    \o AnnotationLines(chapterAnnotations, opts)

BookLines(bookTitle, bookAnnotations, opts, map) ==
  LET chapterGroups == ToEntries(groupByChapterId(bookAnnotations))
  IN generateBookHeader(bookTitle, opts,
                        getBookAuthors(bookAnnotations, map),
                        getBookGenres(bookAnnotations, map))
       \o << <<>> >>
       \o Concat([c \in 1..Len(chapterGroups) |->
                    ChapterLines(chapterGroups[c][2], opts)])

\* mutant of SeriesLines: the series header is taken from the last
\* annotation of the series
SeriesLines_LastAnnotation(seriesAnnotations, opts, map) ==
  IF seriesAnnotations = <<>> THEN <<>>
  ELSE LET sortedBookGroups == getSortedBookGroups(seriesAnnotations, map)
       IN generateSeriesHeader(seriesAnnotations[Len(seriesAnnotations)], opts, None)
            \o << <<>> >>
            \o Concat([b \in 1..Len(sortedBookGroups) |->
                         BookLines(sortedBookGroups[b][1], sortedBookGroups[b][2],
                                   opts, map)])

SeriesLines(seriesAnnotations, opts, map) ==
  IF seriesAnnotations = <<>> THEN <<>>
  ELSE LET sortedBookGroups == getSortedBookGroups(seriesAnnotations, map)
       IN generateSeriesHeader(seriesAnnotations[1], opts, None)
            \o << <<>> >>
            \o Concat([b \in 1..Len(sortedBookGroups) |->
                         BookLines(sortedBookGroups[b][1], sortedBookGroups[b][2],
                                   opts, map)])

toMarkdown_NoEmptyCase(anns, opts, map, now) ==
  LET seriesGroups == ToEntries(groupBySeriesId(anns))
  IN Join(<<generateFrontmatter(opts, now), <<>>, LitH1Title, <<>> >>
            \o Concat([s \in 1..Len(seriesGroups) |->
                         SeriesLines(seriesGroups[s][2], opts, map)]),
          <<NL>>)

toMarkdown(anns, opts, map, now) ==
  IF Len(anns) = 0
  THEN generateFrontmatter(opts, now)
         \o <<NL, NL>> \o LitH1Title \o <<NL, NL>> \o LitNoAnnotations \o <<NL>>
  ELSE LET seriesGroups == ToEntries(groupBySeriesId(anns))
       IN Join(<<generateFrontmatter(opts, now), <<>>, LitH1Title, <<>> >>
                 \o Concat([s \in 1..Len(seriesGroups) |->
                              SeriesLines(seriesGroups[s][2], opts, map)]),
               <<NL>>)

----------------------------------------------------------------------------
(* Inputs.  The formatter is a set of pure functions: the initial state    *)
(* draws their arguments, and each action is one call, whose return value  *)
(* is kept in result.                                                      *)

SeriesIds == {1, 2}
ChapterIds == {1, 2}
BookTitles == {<<"B">>, <<"2">>, <<"1", "0">>}
SortOrders == {0, 1}
TextChars == {"x", NL}
CommentChars == {"x", " ", "{", "}", NL}

Annotation(seriesId, chapterId, text, comment, page, spoiler) ==
  [id |-> 1, seriesId |-> seriesId, chapterId |-> chapterId, libraryId |-> 1,
   seriesName |-> None, chapterTitle |-> None, libraryName |-> None,
   selectedText |-> text, comment |-> comment, pageNumber |-> page,
   containsSpoiler |-> spoiler]

Options(comments, spoilers) ==
  [includeComments |-> comments, includeSpoilers |-> spoilers,
   includeTags |-> TRUE, tagPrefix |-> <<>>, includeWikilinks |-> TRUE]

ChapterInfo(chapterId, bookTitle, sortOrder) ==
  [chapterId |-> chapterId, bookTitle |-> bookTitle, sortOrder |-> sortOrder,
   authors |-> <<>>, genres |-> <<>>]

\* every chapter-info map over a subset of the chapter ids, and no map
ChapterInfoMaps ==
  {None} \cup
  UNION { { Some([c \in D |-> ChapterInfo(c, f[c][1], f[c][2])]) :
              f \in [D -> BookTitles \X SortOrders] } :
          D \in SUBSET ChapterIds }

\* the annotation lists of at most MaxAnnotations annotations drawn from shapes
ListsOf(shapes) ==
  UNION { [1..n -> shapes] : n \in 0..MaxAnnotations }

\* annotations of several series and chapters
SeriesShapes ==
  { Annotation(s, c, Some(<<"x">>), None, 0, FALSE) :
      s \in SeriesIds, c \in ChapterIds }

\* annotations of the chapters of one series
BookShapes ==
  { Annotation(1, c, Some(<<"x">>), None, 0, FALSE) : c \in ChapterIds }

\* annotations of one series whose chapter and spoiler flag vary
SpoilerShapes ==
  { Annotation(1, c, Some(<<"x">>), None, 0, sp) :
      c \in ChapterIds, sp \in BOOLEAN }

\* annotations of one chapter whose text and spoiler flag vary
TextShapes ==
  { Annotation(1, 1, Some(text), None, 0, sp) :
      text \in {<<"x">>, <<"y">>}, sp \in BOOLEAN }

Texts == {None} \cup {Some(s) : s \in SeqsUpTo(TextChars, MaxTextLen)}
Comments == {None} \cup {Some(s) : s \in SeqsUpTo(CommentChars, MaxCommentLen)}

\* single annotations: every text beside a few comments, and every comment
\* beside a few texts
RenderShapes ==
  { Annotation(1, 1, text, comment, page, sp) :
      text \in Texts, comment \in {None, Some(<<"x">>)},
      page \in 0..MaxPage, sp \in BOOLEAN }
  \cup
  { Annotation(1, 1, text, comment, page, sp) :
      text \in {None, Some(<<"x">>)}, comment \in Comments,
      page \in 0..MaxPage, sp \in BOOLEAN }

\* the paths of the vault, and the syncToFile runs that may be in flight
Paths == {"kavita-annotations.md", "notes.md"}
Runs == {1, 2}

\* a run that has not started: nothing fetched, rendered, written or returned
IdleRun ==
  [pc |-> "idle", annotations |-> <<>>, seriesIds |-> <<>>, next |-> 1,
   metadataMap |-> <<>>, chapterInfoMap |-> <<>>, markdown |-> <<>>,
   operation |-> "none", error |-> "none", cause |-> "none", returned |-> None,
   fetched |-> FALSE, requests |-> 0, failedFetches |-> {}, before |-> None]

\* no sync is in flight and the vault is empty
NoSync ==
  /\ vault = [p \in Paths |-> None]
  /\ run = [r \in Runs |-> IdleRun]
  /\ started = 0

NoCall ==
  /\ clock = 0
  /\ lastCall = "none"
  /\ arg = 0
  /\ result = <<>>
  /\ NoSync

\* a chapter-info map that gives the two chapters two books, the book of the
\* higher chapter id first
TwoBooks ==
  Some([c \in ChapterIds |->
          ChapterInfo(c, IF c = 1 THEN <<"B">> ELSE <<"A">>, IF c = 1 THEN 1 ELSE 0)])

\* several series, with and without chapter info
InitSeries ==
  /\ annotations \in ListsOf(SeriesShapes)
  /\ options = Options(TRUE, FALSE)
  /\ chapterInfoMap \in {None, TwoBooks}
  /\ NoCall

\* one series under every chapter-info map
InitBooks ==
  /\ annotations \in ListsOf(BookShapes)
  /\ options = Options(TRUE, FALSE)
  /\ chapterInfoMap \in ChapterInfoMaps
  /\ NoCall

\* spoilers, included or not
InitSpoiler ==
  /\ annotations \in ListsOf(SpoilerShapes) \cup ListsOf(TextShapes)
  /\ options \in {Options(TRUE, sp) : sp \in BOOLEAN}
  /\ chapterInfoMap = None
  /\ NoCall

InitRender ==
  /\ annotations \in {<<a>> : a \in RenderShapes}
  /\ options \in {Options(c, sp) : c \in BOOLEAN, sp \in BOOLEAN}
  /\ chapterInfoMap = None
  /\ NoCall

Init == InitSeries \/ InitBooks \/ InitSpoiler

----------------------------------------------------------------------------
(* Calls. *)

SeriesGroups == ToEntries(groupBySeriesId(annotations))

\* mutant of CallToMarkdown: the grouping reorders the caller's list, series
\* by series
CallToMarkdown_SortsInPlace ==
  \E now \in clock..MaxClock :
    /\ clock' = now
    /\ lastCall' = "toMarkdown"
    /\ arg' = 0
    /\ result' = toMarkdown(annotations, options, chapterInfoMap, now)
    /\ annotations' = SelectSeq(annotations, LAMBDA a : a.seriesId = 1)
                        \o SelectSeq(annotations, LAMBDA a : a.seriesId # 1)
    /\ UNCHANGED <<options, chapterInfoMap>>
    /\ UNCHANGED syncVars

\* toMarkdown(annotations, options, undefined, chapterInfoMap), the clock
\* being read once, at or after its last reading
CallToMarkdown ==
  \E now \in clock..MaxClock :
    /\ clock' = now
    /\ lastCall' = "toMarkdown"
    /\ arg' = 0
    /\ result' = toMarkdown(annotations, options, chapterInfoMap, now)
    /\ UNCHANGED <<annotations, options, chapterInfoMap>>
    /\ UNCHANGED syncVars

\* formatAnnotation(annotations[i], options)
CallFormatAnnotation(i) ==
  /\ lastCall' = "formatAnnotation"
  /\ arg' = i
  /\ result' = formatAnnotation(annotations[i], options)
  /\ UNCHANGED <<annotations, options, chapterInfoMap, clock>>
  /\ UNCHANGED syncVars

\* getSortedBookGroups(seriesAnnotations, chapterInfoMap) on the s-th series
\* group, as toMarkdown calls it
CallGetSortedBookGroups(s) ==
  /\ lastCall' = "getSortedBookGroups"
  /\ arg' = s
  /\ result' = getSortedBookGroups(SeriesGroups[s][2], chapterInfoMap)
  /\ UNCHANGED <<annotations, options, chapterInfoMap, clock>>
  /\ UNCHANGED syncVars

Next ==
  \/ CallToMarkdown
  \/ \E i \in 1..Len(annotations) : CallFormatAnnotation(i)
  \/ \E s \in 1..Len(SeriesGroups) : CallGetSortedBookGroups(s)

Spec == Init /\ [][Next]_vars

NextRender == \E i \in 1..Len(annotations) : CallFormatAnnotation(i)

SpecRender == InitRender /\ [][NextRender]_vars

----------------------------------------------------------------------------
(* Reading a document back: its lines, header lines and annotation blocks. *)
(* These definitions serve the properties below; they model no code.       *)

Lines(doc) == Split(doc, NL)

IsSeriesHeader(line) == StartsWith(line, LitH2)
IsBookHeader(line) == StartsWith(line, LitH3)
IsChapterHeader(line) == StartsWith(line, LitH4Chapter)

Indices(seq) == [i \in 1..Len(seq) |-> i]

\* the indices of the lines of ls that satisfy Test, ascending
Where(ls, Test(_)) == SelectSeq(Indices(ls), LAMBDA k : Test(ls[k]))

\* the last line at or before index k that satisfies Test (<<>> if none)
LastAtOrBefore(ls, k, Test(_)) ==
  IF \E j \in 1..k : Test(ls[j])
  THEN ls[CHOOSE j \in 1..k : Test(ls[j]) /\ \A m \in (j + 1)..k : ~Test(ls[m])]
  ELSE <<>>

SeriesLineAt(ls, k) == LastAtOrBefore(ls, k, IsSeriesHeader)
BookLineAt(ls, k) == LastAtOrBefore(ls, k, IsBookHeader)
ChapterLineAt(ls, k) == LastAtOrBefore(ls, k, IsChapterHeader)

\* the elements of seq without repetitions, in the order of first occurrence
FirstSeen(seq) ==
  LET firsts == SelectSeq(Indices(seq),
                          LAMBDA i : \A j \in 1..(i - 1) : seq[j] # seq[i])
  IN [k \in 1..Len(firsts) |-> seq[firsts[k]]]

\* the position of the first element of seq that satisfies Test
FirstIndex(seq, Test(_)) ==
  CHOOSE i \in 1..Len(seq) : Test(seq[i]) /\ \A j \in 1..(i - 1) : ~Test(seq[j])

\* the header lines the annotation a belongs under (series and chapter names
\* are those of a itself: in the inputs drawn here every annotation of a group
\* resolves to the same name)
SeriesHeaderOf(a) == LitH2 \o getSeriesName(a)
BookHeaderOf(a) == LitH3 \o getBookTitle(a, chapterInfoMap)
ChapterHeaderOf(a) == LitH4Chapter \o getChapterTitle(a)

\* the sort order of the book group of title among the annotations anns of
\* one series: that of the first annotation that resolves to the title
GroupSortOrder(title, anns) ==
  LET first == anns[FirstIndex(anns, LAMBDA a : getBookTitle(a, chapterInfoMap) = title)]
  IN IF HasChapterInfo(chapterInfoMap, first.chapterId)
     THEN Value(chapterInfoMap)[first.chapterId].sortOrder
     ELSE 0

\* the annotations of the series whose header line is line
AnnotationsUnder(line) ==
  SelectSeq(annotations, LAMBDA a : SeriesHeaderOf(a) = line)

Called(name) == lastCall = name

----------------------------------------------------------------------------
(* C1 as claimed: for a non-empty annotation list the series headers of    *)
(* the document appear in the order in which each series id first appears  *)
(* in the list, whatever the ids are.                                      *)
C1_SeriesHeadersFirstSeen ==
  (Called("toMarkdown") /\ annotations # <<>>) =>
    SelectSeq(Lines(result), IsSeriesHeader)
      = FirstSeen([i \in 1..Len(annotations) |-> SeriesHeaderOf(annotations[i])])

(* C2: within one series the book groups are in ascending sort order of    *)
(* the group, both in what getSortedBookGroups returns (which holds each   *)
(* title of the series exactly once) and in the book headers of the        *)
(* document, whatever the order of the annotations.                        *)
C2_BooksAscending ==
  /\ Called("getSortedBookGroups") =>
       LET anns == SeriesGroups[arg][2]
           titles == [i \in 1..Len(anns) |-> getBookTitle(anns[i], chapterInfoMap)]
       IN /\ Len(result) = Len(FirstSeen(titles))
          /\ \A t \in 1..Len(titles) : \E i \in 1..Len(result) : result[i][1] = titles[t]
          /\ \A i, j \in 1..Len(result) :
               GroupSortOrder(result[i][1], anns) < GroupSortOrder(result[j][1], anns)
                 => i < j
  /\ Called("toMarkdown") =>
       LET ls == Lines(result)
           books == Where(ls, IsBookHeader)
       IN \A i, j \in 1..Len(books) :
            LET si == SeriesLineAt(ls, books[i])
                sj == SeriesLineAt(ls, books[j])
                ti == SubSeq(ls[books[i]], Len(LitH3) + 1, Len(ls[books[i]]))
                tj == SubSeq(ls[books[j]], Len(LitH3) + 1, Len(ls[books[j]]))
            IN (si = sj /\ GroupSortOrder(ti, AnnotationsUnder(si))
                             < GroupSortOrder(tj, AnnotationsUnder(sj)))
                 => i < j

\* a document in which the book seen second is emitted first, its sort order
\* being the lower one
C2_Witness ==
  /\ Called("toMarkdown")
  /\ Len(annotations) >= 2
  /\ annotations[1].seriesId = annotations[2].seriesId
  /\ HasChapterInfo(chapterInfoMap, annotations[1].chapterId)
  /\ HasChapterInfo(chapterInfoMap, annotations[2].chapterId)
  /\ Value(chapterInfoMap)[annotations[1].chapterId].sortOrder
       > Value(chapterInfoMap)[annotations[2].chapterId].sortOrder
  /\ Value(chapterInfoMap)[annotations[1].chapterId].bookTitle = <<"B">>
  /\ Value(chapterInfoMap)[annotations[2].chapterId].bookTitle = <<"1", "0">>
  /\ LET books == SelectSeq(Lines(result), IsBookHeader)
     IN Len(books) = 2 /\ books[1] = LitH3 \o <<"1", "0">> /\ books[2] = LitH3 \o <<"B">>

(* C3 as claimed: book groups of one series with equal sort order stay in  *)
(* the order in which their titles were first seen among the annotations,  *)
(* for every pair of titles, titles made of digits included.               *)
C3_TiesFirstSeen ==
  Called("getSortedBookGroups") =>
    LET anns == SeriesGroups[arg][2]
        SeenAt(title) == FirstIndex(anns, LAMBDA a : getBookTitle(a, chapterInfoMap) = title)
    IN \A i, j \in 1..Len(result) :
         (i < j /\ GroupSortOrder(result[i][1], anns) = GroupSortOrder(result[j][1], anns))
           => SeenAt(result[i][1]) < SeenAt(result[j][1])

(* C4 as claimed: within one book group the chapter headers of the         *)
(* document appear in the order in which each chapter id first appears     *)
(* among that book's annotations, whatever the ids are.                    *)
C4_ChapterHeadersFirstSeen ==
  Called("toMarkdown") =>
    LET ls == Lines(result)
        chapters == Where(ls, IsChapterHeader)
        SeenAt(k) == FirstIndex(annotations,
                       LAMBDA a : /\ SeriesHeaderOf(a) = SeriesLineAt(ls, k)
                                  /\ BookHeaderOf(a) = BookLineAt(ls, k)
                                  /\ ChapterHeaderOf(a) = ls[k])
    IN \A i, j \in 1..Len(chapters) :
         (/\ i < j
          /\ SeriesLineAt(ls, chapters[i]) = SeriesLineAt(ls, chapters[j])
          /\ BookLineAt(ls, chapters[i]) = BookLineAt(ls, chapters[j]))
           => SeenAt(chapters[i]) < SeenAt(chapters[j])

\* the indices at which an annotation block starts: a quoted line that does
\* not continue a block quote
BlockStarts(ls) ==
  SelectSeq(Indices(ls),
            LAMBDA k : /\ StartsWith(ls[k], LitQuote)
                       /\ (k = 1 \/ ~StartsWith(ls[k - 1], LitQuote)))

\* whether the separator (a blank line, "---", a blank line) follows line e
SeparatorAfter(ls, e) ==
  /\ e + 3 <= Len(ls)
  /\ ls[e + 1] = <<>>
  /\ ls[e + 2] = LitRule
  /\ ls[e + 3] = <<>>

\* the block that starts at line k, up to its separator
BlockAt(ls, k) ==
  LET e == CHOOSE e \in k..Len(ls) :
             SeparatorAfter(ls, e) /\ \A m \in k..(e - 1) : ~SeparatorAfter(ls, m)
  IN Join(SubSeq(ls, k, e), <<NL>>)

\* where a block of the document stands, and what it is
DocPlace(ls, k) ==
  <<SeriesLineAt(ls, k), BookLineAt(ls, k), ChapterLineAt(ls, k), BlockAt(ls, k)>>

\* where the annotation a has to stand, and its rendering
OwnPlace(a) ==
  <<SeriesHeaderOf(a), BookHeaderOf(a), ChapterHeaderOf(a),
    Value(formatAnnotation(a, options))>>

Rendered == {i \in 1..Len(annotations) : IsSome(formatAnnotation(annotations[i], options))}

----------------------------------------------------------------------------
(* Spoilers. *)

TextOf(a) == OrElse(a.selectedText, <<>>)

Spoilers == {i \in 1..Len(annotations) : annotations[i].containsSpoiler}

\* the annotation list with the highlighted text of every spoiler taken out
Redacted ==
  [i \in 1..Len(annotations) |->
     IF i \in Spoilers THEN [annotations[i] EXCEPT !.selectedText = None]
     ELSE annotations[i]]

(* C6 as claimed: with includeSpoilers = false, formatAnnotation returns   *)
(* none for every spoiler, and the document contains the highlighted text  *)
(* of no spoiler.                                                          *)
C6_SpoilerTextAbsent ==
  ~options.includeSpoilers =>
    /\ (Called("formatAnnotation") /\ arg \in Spoilers) => result = None
    /\ Called("toMarkdown") =>
         \A i \in Spoilers : ~Includes(result, TextOf(annotations[i]))

(* C6 as amended: with includeSpoilers = false, formatAnnotation returns   *)
(* none for every spoiler, and the document holds no block for a spoiler   *)
(* and does not depend on its highlighted text: it has one block per       *)
(* annotation that is no spoiler and is the very document produced when    *)
(* the spoilers carry no text at all.                                      *)
C6_SpoilerOmitted ==
  ~options.includeSpoilers =>
    /\ (Called("formatAnnotation") /\ arg \in Spoilers) => result = None
    /\ Called("toMarkdown") =>
         /\ Len(BlockStarts(Lines(result))) = Len(annotations) - Cardinality(Spoilers)
         /\ result = toMarkdown(Redacted, options, chapterInfoMap, clock)

\* a spoiler is omitted from a document that shows the same text for an
\* annotation that is no spoiler
C6_Witness ==
  /\ Called("toMarkdown")
  /\ ~options.includeSpoilers
  /\ \E i \in Spoilers : \E j \in 1..Len(annotations) :
       /\ j \notin Spoilers
       /\ TextOf(annotations[j]) = TextOf(annotations[i])
       /\ Includes(result, LitQuote \o TextOf(annotations[i]))
       /\ Len(BlockStarts(Lines(result))) = Len(annotations) - Cardinality(Spoilers)

----------------------------------------------------------------------------
(* The block of one annotation (specification SpecRender). *)

Subject == annotations[arg]

\* the comment is null, blank, or "{}" with nothing but white space around it
Placeholder(comment) ==
  \/ IsNone(comment)
  \/ \A i \in 1..Len(Value(comment)) : Value(comment)[i] \in WhiteSpace
  \/ \E i \in 1..(Len(Value(comment)) - 1) :
       /\ Value(comment)[i] = "{"
       /\ Value(comment)[i + 1] = "}"
       /\ \A j \in 1..Len(Value(comment)) :
            j \notin {i, i + 1} => Value(comment)[j] \in WhiteSpace

IsNoteLine(line) == StartsWith(line, LitNote)
IsPageLine(line) == StartsWith(line, LitPageOpen)
IsQuoteLine(line) == StartsWith(line, LitQuote)

Noted(block) == \E k \in 1..Len(Lines(block)) : IsNoteLine(Lines(block)[k])
Paged(block) == \E k \in 1..Len(Lines(block)) : IsPageLine(Lines(block)[k])

Rendering == Called("formatAnnotation") /\ IsSome(result)

(* C7: for a comment that is null, empty, "{}", or empty or "{}" once      *)
(* trimmed, the block has no line that starts with "*Note:*", whether      *)
(* includeComments is true or false.                                       *)
C7_NoNoteForPlaceholder ==
  (Rendering /\ Placeholder(Subject.comment)) =>
    \A k \in 1..Len(Lines(Value(result))) :
      ~StartsWith(Lines(Value(result))[k], SubSeq(LitNote, 1, 7))

\* comments are included and the comment is "{}" behind white space
C7_Witness ==
  /\ Rendering
  /\ options.includeComments
  /\ Subject.comment = Some(<<" ", "{", "}">>)
  /\ ~Noted(Value(result))

(* C8 as claimed: a note is emitted exactly when includeComments is true   *)
(* and the comment is a real one; the block then holds a blank line and    *)
(* "*Note:* " followed by the comment as given; and when includeComments   *)
(* is false neither a note line nor the text of the comment appears in the *)
(* block.                                                                  *)
C8_NoteOrNoCommentText ==
  Rendering =>
    /\ Noted(Value(result))
         <=> (options.includeComments /\ ~Placeholder(Subject.comment))
    /\ Noted(Value(result)) =>
         Includes(Value(result), <<NL, NL>> \o LitNote \o Value(Subject.comment))
    /\ (~options.includeComments /\ ~Placeholder(Subject.comment)) =>
         /\ ~Noted(Value(result))
         /\ ~Includes(Value(result), Value(Subject.comment))

(* C8 as amended: a note is emitted exactly when includeComments is true   *)
(* and the comment is a real one; the block then holds a blank line and    *)
(* "*Note:* " followed by the comment as given; and when includeComments   *)
(* is false the block has no note line and is the block of the same        *)
(* annotation without a comment.                                           *)
C8_NoteExactly ==
  Rendering =>
    /\ Noted(Value(result))
         <=> (options.includeComments /\ ~Placeholder(Subject.comment))
    /\ Noted(Value(result)) =>
         Includes(Value(result), <<NL, NL>> \o LitNote \o Value(Subject.comment))
    /\ ~options.includeComments =>
         /\ ~Noted(Value(result))
         /\ result = formatAnnotation([Subject EXCEPT !.comment = None], options)

\* a real comment with white space around it is shown as given, after a
\* blank line
C8_Witness ==
  /\ Rendering
  /\ Subject.comment = Some(<<" ", "x", " ">>)
  /\ options.includeComments
  /\ \E k \in 2..Len(Lines(Value(result))) :
       /\ Lines(Value(result))[k - 1] = <<>>
       /\ Lines(Value(result))[k] = LitNote \o <<" ", "x", " ">>

\* the text with "> " before it and after each of its newlines
Quoted(text) ==
  LitQuote
    \o Concat([i \in 1..Len(text) |->
                 IF text[i] = NL THEN <<NL>> \o LitQuote ELSE <<text[i]>>])

LineCount(text) == Cardinality({i \in 1..Len(text) : text[i] = NL}) + 1

(* C9: the block begins with the highlighted text quoted line by line:     *)
(* "> " before every line of it, blank lines included, as many quoted      *)
(* lines as the text has lines, one after the other and followed by the    *)
(* end of the block or a blank line; a null text gives the single line     *)
(* "> ".                                                                   *)
C9_QuoteEveryLine ==
  Rendering =>
    LET block == Value(result)
        ls == Lines(block)
        text == TextOf(Subject)
    IN /\ StartsWith(block, Quoted(text))
       /\ \/ Len(block) = Len(Quoted(text))
          \/ SubSeq(block, Len(Quoted(text)) + 1, Len(Quoted(text)) + 2) = <<NL, NL>>
       /\ Len(ls) >= LineCount(text)
       /\ \A k \in 1..LineCount(text) : IsQuoteLine(ls[k])
       /\ Len(ls) > LineCount(text) => ls[LineCount(text) + 1] = <<>>
       /\ IsNone(Subject.selectedText) => ls[1] = LitQuote /\ LineCount(text) = 1

\* two paragraphs and the blank line between them make three quoted lines
C9_Witness ==
  /\ Rendering
  /\ Subject.selectedText = Some(<<"x", NL, NL, "x">>)
  /\ LET ls == Lines(Value(result))
     IN /\ ls[1] = LitQuote \o <<"x">>
        /\ ls[2] = LitQuote
        /\ ls[3] = LitQuote \o <<"x">>
        /\ \A k \in 4..Len(ls) : ~IsQuoteLine(ls[k])

(* C10: the block ends with a blank line and "<small>Page n</small>"       *)
(* exactly when the page number n is greater than zero, and has no page    *)
(* line for page number 0; the quoted lines come before the note and the   *)
(* note before the page line.                                              *)
C10_PageLineLast ==
  Rendering =>
    LET block == Value(result)
        ls == Lines(block)
        n == Subject.pageNumber
    IN /\ Paged(block) <=> n > 0
       /\ n = 0 => ~Paged(block)
       /\ Paged(block) =>
            /\ Len(ls) >= 3
            /\ ls[Len(ls)] = LitPageOpen \o Digits(n) \o LitPageClose
            /\ ls[Len(ls) - 1] = <<>>
            /\ \A k \in 1..(Len(ls) - 1) : ~IsPageLine(ls[k])
       /\ \A i, j \in 1..Len(ls) :
            \/ IsQuoteLine(ls[i]) /\ IsNoteLine(ls[j])
            \/ IsQuoteLine(ls[i]) /\ IsPageLine(ls[j])
            \/ IsNoteLine(ls[i]) /\ IsPageLine(ls[j])
            => i < j

\* a block with all three parts
C10_Witness ==
  /\ Rendering
  /\ Subject.pageNumber = 1
  /\ Noted(Value(result))
  /\ LET ls == Lines(Value(result))
     IN /\ Len(ls) = 5
        /\ IsQuoteLine(ls[1])
        /\ IsNoteLine(ls[3])
        /\ ls[5] = LitPageOpen \o <<"1">> \o LitPageClose


----------------------------------------------------------------------------
(* Whole documents under every option (specification SpecDoc): tags,       *)
(* wikilinks and tag prefix vary, the chapter info carries authors and     *)
(* genres, and comments may hold lines that look like a separator.         *)

TagPrefixes == {<<>>, <<"G", "/">>}

OptionsOf(comments, spoilers, tags, prefix, wikilinks) ==
  [includeComments |-> comments, includeSpoilers |-> spoilers,
   includeTags |-> tags, tagPrefix |-> prefix, includeWikilinks |-> wikilinks]

ChapterInfoOf(chapterId, bookTitle, sortOrder, authors, genres) ==
  [chapterId |-> chapterId, bookTitle |-> bookTitle, sortOrder |-> sortOrder,
   authors |-> authors, genres |-> genres]

AuthorA == <<"A", "l">>
AuthorB == <<"B", "o">>
GenreSciFi == <<"S", "c", "i", " ", "F", "i">>
GenreNoir == <<"N", "-", "o", "!">>

\* chapter info with or without authors and genres; chapter 1 is of book
\* "B" and chapter 2 of book "A"
MetaInfos(c) ==
  { ChapterInfoOf(c, IF c = 1 THEN <<"B">> ELSE <<"A">>, 0, authors, genres) :
      authors \in {<<>>, <<AuthorA, AuthorB>>},
      genres \in {<<>>, <<GenreSciFi, GenreNoir>>} }

MetaMaps ==
  {None} \cup
  UNION { { Some(f) : f \in { g \in [D -> UNION {MetaInfos(c) : c \in D}] :
                               \A c \in D : g[c] \in MetaInfos(c) } } :
          D \in SUBSET ChapterIds }

\* a comment whose last line is "---" after a blank line
RuleComment == <<"x", NL, NL, "-", "-", "-">>

\* annotations of one chapter, spoilers or not, with or without that comment
RuleShapes ==
  { Annotation(1, 1, Some(<<"x">>), comment, 0, sp) :
      comment \in {None, Some(RuleComment)}, sp \in BOOLEAN }

\* one series with every chapter info, under every tag and wikilink option
InitDocTags ==
  /\ annotations \in ListsOf(BookShapes)
  /\ options \in { OptionsOf(TRUE, FALSE, tags, prefix, links) :
                     tags \in BOOLEAN, prefix \in TagPrefixes, links \in BOOLEAN }
  /\ chapterInfoMap \in MetaMaps
  /\ NoCall

\* one chapter, comments and spoilers included or not
InitDocRule ==
  /\ annotations \in ListsOf(RuleShapes)
  /\ options \in {Options(c, sp) : c \in BOOLEAN, sp \in BOOLEAN}
  /\ chapterInfoMap = None
  /\ NoCall

InitDoc == InitDocTags \/ InitDocRule

NextDoc == CallToMarkdown

SpecDoc == InitDoc /\ [][NextDoc]_vars

\* the number of lines of the frontmatter
FrontmatterLength == IF options.includeTags THEN 7 ELSE 4

(* C11: for every options value the document of the empty annotation list  *)
(* is the frontmatter, a blank line, "# Kavita Annotations", a blank line,  *)
(* "*No annotations found.*" and a final line end, and none of its lines    *)
(* starts with "##".                                                        *)
C11_EmptyDocument ==
  (Called("toMarkdown") /\ annotations = <<>>) =>
    LET ls == Lines(result)
        n == FrontmatterLength
    IN /\ Len(ls) = n + 5
       /\ ls[1] = LitRule
       /\ ls[2] = LitFmTitle
       /\ StartsWith(ls[n - 1], LitFmUpdated)
       /\ ls[n] = LitRule
       /\ SubSeq(ls, n + 1, n + 5) = << <<>>, LitH1Title, <<>>, LitNoAnnotations, <<>> >>
       /\ Includes(result, LitNoAnnotations)
       /\ \A k \in 1..Len(ls) : ~StartsWith(ls[k], <<"#", "#">>)

\* the empty list has been rendered without tags, with chapter info supplied
C11_Witness ==
  /\ Called("toMarkdown")
  /\ annotations = <<>>
  /\ ~options.includeTags
  /\ IsSome(chapterInfoMap)
  /\ Lines(result)[Len(Lines(result)) - 1] = LitNoAnnotations


----------------------------------------------------------------------------
(* Separators. *)

IsHeader(line) == IsSeriesHeader(line) \/ IsBookHeader(line) \/ IsChapterHeader(line)

\* the lines at which a separator group (a blank line, "---", a blank line)
\* starts
SeparatorGroups(ls) ==
  {k \in 1..(Len(ls) - 2) : ls[k] = <<>> /\ ls[k + 1] = LitRule /\ ls[k + 2] = <<>>}

\* the lines under the chapter header at line h: from the line after the
\* blank line below it up to the next header, or to the end
ChapterSection(ls, h) ==
  LET later == {k \in (h + 1)..Len(ls) : IsHeader(ls[k])}
      last == IF later = {} THEN Len(ls)
              ELSE (CHOOSE k \in later : \A m \in later : k <= m) - 1
  IN SubSeq(ls, h + 2, last)

\* the annotations that are not omitted and belong under the chapter header
\* at line h, in list order
ShownUnder(ls, h) ==
  SelectSeq(annotations,
            LAMBDA a : /\ IsSome(formatAnnotation(a, options))
                       /\ SeriesHeaderOf(a) = SeriesLineAt(ls, h)
                       /\ BookHeaderOf(a) = BookLineAt(ls, h)
                       /\ ChapterHeaderOf(a) = ls[h])

(* C12 as claimed: the number of separator groups (a blank line, a "---"   *)
(* line, a blank line) in the document equals the number of annotations    *)
(* that were not omitted.                                                   *)
C12_SeparatorCount ==
  Called("toMarkdown") =>
    Cardinality(SeparatorGroups(Lines(result))) = Cardinality(Rendered)

(* C12 as amended: under every chapter header, after one blank line, stand  *)
(* the blocks of the chapter's annotations that are not omitted, in list    *)
(* order, each followed by a blank line, a "---" line and a blank line, and *)
(* nothing else: an omitted annotation contributes no line.                 *)
C12_SeparatorAfterEachBlock ==
  Called("toMarkdown") =>
    LET ls == Lines(result)
        chapters == Where(ls, IsChapterHeader)
    IN \A c \in 1..Len(chapters) :
         LET h == chapters[c]
             shown == ShownUnder(ls, h)
         IN /\ ls[h + 1] = <<>>
            /\ ChapterSection(ls, h)
                 = Concat([i \in 1..Len(shown) |->
                             Lines(Value(formatAnnotation(shown[i], options)))
                               \o << <<>>, LitRule, <<>> >>])

\* an omitted spoiler stands between two rendered annotations, one of which
\* carries the comment that ends in "---"
C12_Witness ==
  /\ Called("toMarkdown")
  /\ Len(annotations) = 3
  /\ ~options.includeSpoilers
  /\ options.includeComments
  /\ ~annotations[1].containsSpoiler
  /\ annotations[1].comment = Some(RuleComment)
  /\ annotations[2].containsSpoiler
  /\ ~annotations[3].containsSpoiler
  /\ annotations[3].comment = None
  /\ Len(ChapterSection(Lines(result), Where(Lines(result), IsChapterHeader)[1])) = 12


----------------------------------------------------------------------------
(* The name and chapter-info functions, called one at a time               *)
(* (specification SpecParts).                                              *)

\* a name field: null, the empty string, or a name
Names == {None, Some(<<>>), Some(<<"N">>)}

Named(a, seriesName, chapterTitle, libraryName) ==
  [a EXCEPT !.seriesName = seriesName, !.chapterTitle = chapterTitle,
            !.libraryName = libraryName]

NameShapes ==
  { Named(Annotation(s, c, Some(<<"x">>), None, 0, FALSE), sn, ct, ln) :
      s \in SeriesIds, c \in ChapterIds, sn \in Names, ct \in Names, ln \in Names }

\* no map, or a map that knows chapter 1 only, under a title or the empty title
NameMaps ==
  {None} \cup { Some([c \in {1} |-> ChapterInfo(c, title, 0)]) : title \in {<<"B">>, <<>>} }

\* what a chapter-info entry says of authors, genres and sort order
MetaBundles ==
  { << <<>>, <<>>, 0 >>,
    << <<AuthorA>>, <<GenreSciFi>>, 1 >>,
    << <<AuthorB>>, <<GenreNoir>>, 2 >>,
    << <<AuthorB, AuthorA>>, <<GenreNoir, GenreSciFi>>, 1 >> }

\* maps over a subset of the chapter ids, all chapters being of book "B"
BundleMaps ==
  {None} \cup
  UNION { { Some([c \in D |-> ChapterInfoOf(c, <<"B">>, f[c][3], f[c][1], f[c][2])]) :
              f \in [D -> MetaBundles] } :
          D \in SUBSET ChapterIds }

SeriesMetadata == [writers |-> <<AuthorA>>, genres |-> <<GenreSciFi>>]

InitNames ==
  /\ annotations \in {<<a>> : a \in NameShapes}
  /\ options \in { OptionsOf(TRUE, FALSE, TRUE, <<>>, links) : links \in BOOLEAN }
  /\ chapterInfoMap \in NameMaps
  /\ NoCall

InitBundles ==
  /\ annotations \in ListsOf(BookShapes)
  /\ options = Options(TRUE, FALSE)
  /\ chapterInfoMap \in BundleMaps
  /\ NoCall

InitParts == InitNames \/ InitBundles

CallGetSeriesName(i) ==
  /\ lastCall' = "getSeriesName"
  /\ arg' = i
  /\ result' = getSeriesName(annotations[i])
  /\ UNCHANGED <<annotations, options, chapterInfoMap, clock>>
  /\ UNCHANGED syncVars

CallGetChapterTitle(i) ==
  /\ lastCall' = "getChapterTitle"
  /\ arg' = i
  /\ result' = getChapterTitle(annotations[i])
  /\ UNCHANGED <<annotations, options, chapterInfoMap, clock>>
  /\ UNCHANGED syncVars

CallGetLibraryName(i) ==
  /\ lastCall' = "getLibraryName"
  /\ arg' = i
  /\ result' = getLibraryName(annotations[i])
  /\ UNCHANGED <<annotations, options, chapterInfoMap, clock>>
  /\ UNCHANGED syncVars

CallGetBookTitle(i) ==
  /\ lastCall' = "getBookTitle"
  /\ arg' = i
  /\ result' = getBookTitle(annotations[i], chapterInfoMap)
  /\ UNCHANGED <<annotations, options, chapterInfoMap, clock>>
  /\ UNCHANGED syncVars

\* the three functions below are given the whole list as one book group
CallGetBookAuthors ==
  /\ lastCall' = "getBookAuthors"
  /\ arg' = 0
  /\ result' = getBookAuthors(annotations, chapterInfoMap)
  /\ UNCHANGED <<annotations, options, chapterInfoMap, clock>>
  /\ UNCHANGED syncVars

CallGetBookGenres ==
  /\ lastCall' = "getBookGenres"
  /\ arg' = 0
  /\ result' = getBookGenres(annotations, chapterInfoMap)
  /\ UNCHANGED <<annotations, options, chapterInfoMap, clock>>
  /\ UNCHANGED syncVars

CallGetBookSortOrder ==
  /\ lastCall' = "getBookSortOrder"
  /\ arg' = 0
  /\ result' = getBookSortOrder(IF annotations = <<>> THEN <<>>
                                ELSE getBookTitle(annotations[1], chapterInfoMap),
                                annotations, chapterInfoMap)
  /\ UNCHANGED <<annotations, options, chapterInfoMap, clock>>
  /\ UNCHANGED syncVars

\* generateSeriesHeader(annotations[i], options, metadata), the metadata
\* supplied or not
CallGenerateSeriesHeader(i) ==
  \E metadata \in {None, Some(SeriesMetadata)} :
    /\ lastCall' = "generateSeriesHeader"
    /\ arg' = [index |-> i, metadata |-> metadata]
    /\ result' = generateSeriesHeader(annotations[i], options, metadata)
    /\ UNCHANGED <<annotations, options, chapterInfoMap, clock>>
    /\ UNCHANGED syncVars

NextParts ==
  \/ \E i \in 1..Len(annotations) : CallGetSeriesName(i)
  \/ \E i \in 1..Len(annotations) : CallGetChapterTitle(i)
  \/ \E i \in 1..Len(annotations) : CallGetLibraryName(i)
  \/ \E i \in 1..Len(annotations) : CallGetBookTitle(i)
  \/ CallGetBookAuthors
  \/ CallGetBookGenres
  \/ CallGetBookSortOrder
  \/ \E i \in 1..Len(annotations) : CallGenerateSeriesHeader(i)

SpecParts == InitParts /\ [][NextParts]_vars

\* a name that is neither null nor the empty string
IsGiven(name) == IsSome(name) /\ Value(name) # <<>>

\* the decimal numeral of 1 or 2, the ids drawn here
Numeral(n) == IF n = 1 THEN <<"1">> ELSE <<"2">>

(* C13 as claimed: getSeriesName, getChapterTitle and getLibraryName return *)
(* the annotation's name field when it is neither null nor the empty        *)
(* string, and otherwise "Series <seriesId>", "Chapter <chapterId>" or      *)
(* "Library <libraryId>".                                                   *)
C13_NameOrLabel ==
  /\ Called("getSeriesName") =>
       result = IF IsGiven(annotations[arg].seriesName)
                THEN Value(annotations[arg].seriesName)
                ELSE <<"S", "e", "r", "i", "e", "s", " ">>
                       \o Numeral(annotations[arg].seriesId)
  /\ Called("getChapterTitle") =>
       result = IF IsGiven(annotations[arg].chapterTitle)
                THEN Value(annotations[arg].chapterTitle)
                ELSE <<"C", "h", "a", "p", "t", "e", "r", " ">>
                       \o Numeral(annotations[arg].chapterId)
  /\ Called("getLibraryName") =>
       result = IF IsGiven(annotations[arg].libraryName)
                THEN Value(annotations[arg].libraryName)
                ELSE <<"L", "i", "b", "r", "a", "r", "y", " ">>
                       \o Numeral(annotations[arg].libraryId)

(* C14: getBookTitle returns the book title of the chapter-info entry when  *)
(* a map is supplied and holds the annotation's chapter id (the empty       *)
(* title included), and in every other case what getSeriesName returns for  *)
(* the annotation.                                                          *)
C14_BookTitleOrSeriesName ==
  Called("getBookTitle") =>
    LET a == annotations[arg]
    IN IF chapterInfoMap # None /\ a.chapterId \in DOMAIN chapterInfoMap[1]
       THEN result = chapterInfoMap[1][a.chapterId].bookTitle
       ELSE result = getSeriesName(a)

\* a map is supplied and lacks the chapter: the series name is returned
C14_Witness ==
  /\ Called("getBookTitle")
  /\ chapterInfoMap # None
  /\ annotations[arg].chapterId \notin DOMAIN chapterInfoMap[1]
  /\ annotations[arg].seriesName = Some(<<"N">>)
  /\ result = <<"N">>

\* the chapter-info entry of the first annotation of the list, if any
FirstEntry ==
  IF /\ annotations # <<>>
     /\ chapterInfoMap # None
     /\ annotations[1].chapterId \in DOMAIN chapterInfoMap[1]
  THEN Some(chapterInfoMap[1][annotations[1].chapterId])
  ELSE None

(* C15: the sort order, authors and genres of a book group are those of the *)
(* chapter-info entry of the group's first annotation, whatever the later   *)
(* annotations are; without a map, or without an entry for that chapter,    *)
(* the sort order is 0 and the authors and genres are empty.                *)
C15_FirstAnnotationOnly ==
  /\ Called("getBookAuthors") =>
       result = IF IsSome(FirstEntry) THEN Value(FirstEntry).authors ELSE <<>>
  /\ Called("getBookGenres") =>
       result = IF IsSome(FirstEntry) THEN Value(FirstEntry).genres ELSE <<>>
  /\ Called("getBookSortOrder") =>
       result = IF IsSome(FirstEntry) THEN Value(FirstEntry).sortOrder ELSE 0

\* the group's later annotation is of a chapter with other authors, and the
\* authors returned are those of the first
C15_Witness ==
  /\ Called("getBookAuthors")
  /\ Len(annotations) >= 2
  /\ IsSome(FirstEntry)
  /\ chapterInfoMap # None
  /\ annotations[2].chapterId \in DOMAIN chapterInfoMap[1]
  /\ chapterInfoMap[1][annotations[2].chapterId].authors = <<AuthorB>>
  /\ result = <<AuthorA>>


----------------------------------------------------------------------------
(* The book header and the frontmatter, called on arguments drawn at the   *)
(* start (specification SpecHeader): arg holds the title, the authors and  *)
(* the genres.                                                             *)

AuthorLists == {<<>>, <<AuthorA>>, <<AuthorA, AuthorB>>, <<AuthorB, AuthorA>>}
GenreLists == {<<>>, <<GenreSciFi>>, <<GenreNoir, GenreSciFi>>}

HeaderArguments ==
  [bookTitle : {<<"B">>, <<"2">>}, authors : AuthorLists, genres : GenreLists]

InitHeader ==
  /\ annotations = <<>>
  /\ options \in { OptionsOf(TRUE, FALSE, tags, prefix, links) :
                     tags \in BOOLEAN, prefix \in TagPrefixes, links \in BOOLEAN }
  /\ chapterInfoMap = None
  /\ clock = 0
  /\ lastCall = "none"
  /\ arg \in HeaderArguments
  /\ result = <<>>
  /\ NoSync

CallGenerateBookHeader ==
  /\ lastCall' = "generateBookHeader"
  /\ result' = generateBookHeader(arg.bookTitle, options, arg.authors, arg.genres)
  /\ UNCHANGED <<annotations, options, chapterInfoMap, clock, arg>>
  /\ UNCHANGED syncVars

\* generateFrontmatter(options), the clock being read once
CallGenerateFrontmatter ==
  \E now \in clock..MaxClock :
    /\ clock' = now
    /\ lastCall' = "generateFrontmatter"
    /\ result' = generateFrontmatter(options, now)
    /\ UNCHANGED <<annotations, options, chapterInfoMap, arg>>
    /\ UNCHANGED syncVars

NextHeader == CallGenerateBookHeader \/ CallGenerateFrontmatter

SpecHeader == InitHeader /\ [][NextHeader]_vars

IsAuthorLine(line) == StartsWith(line, LitAuthor)
IsBookLine(line) == StartsWith(line, LitBook)
IsGenresLine(line) == StartsWith(line, LitGenres)
IsTagsLine(line) == StartsWith(line, LitTags)

\* a name as the author line shows it
Shown(name) ==
  IF options.includeWikilinks THEN <<"[", "[">> \o name \o <<"]", "]">> ELSE name

(* C16: the book header has an "**Author:**" line exactly when there are    *)
(* authors: the authors in their given order, joined with ", ", each as     *)
(* [[name]] when includeWikilinks is true and plain when it is false; it    *)
(* has the line "**Book:** [[title]]" exactly when includeWikilinks is      *)
(* true.                                                                    *)
C16_AuthorAndBookLines ==
  Called("generateBookHeader") =>
    /\ SelectSeq(result, IsAuthorLine)
         = IF arg.authors = <<>> THEN <<>>
           ELSE <<LitAuthor \o Join([i \in 1..Len(arg.authors) |-> Shown(arg.authors[i])],
                                    <<",", " ">>)>>
    /\ SelectSeq(result, IsBookLine)
         = IF options.includeWikilinks
           THEN <<LitBook \o <<"[", "[">> \o arg.bookTitle \o <<"]", "]">> >>
           ELSE <<>>

\* two authors are listed plainly, in their order, and no book line is there
C16_Witness ==
  /\ Called("generateBookHeader")
  /\ ~options.includeWikilinks
  /\ arg.authors = <<AuthorB, AuthorA>>
  /\ result[2] = LitAuthor \o <<"B", "o", ",", " ", "A", "l">>
  /\ SelectSeq(result, IsBookLine) = <<>>

\* the slugs of the genres drawn here: "Sci Fi" gives sci-fi, "N-o!" gives n-o
SlugOf(genre) ==
  IF genre = GenreSciFi THEN <<"s", "c", "i", "-", "f", "i">> ELSE <<"n", "-", "o">>

(* C17: the book header has a "**Tags:**" line exactly when includeTags is  *)
(* true and there are genres: one tag per genre, in genre order, joined     *)
(* with a space, each tag "#", then the tag prefix as given, then the slug  *)
(* of the genre.                                                            *)
C17_TagsLine ==
  Called("generateBookHeader") =>
    SelectSeq(result, IsTagsLine)
      = IF options.includeTags /\ arg.genres # <<>>
        THEN <<LitTags \o Join([i \in 1..Len(arg.genres) |->
                                  <<"#">> \o options.tagPrefix \o SlugOf(arg.genres[i])],
                               <<" ">>)>>
        ELSE <<>>

\* two genres are tagged under the prefix G/, kept as given
C17_Witness ==
  /\ Called("generateBookHeader")
  /\ options.includeTags
  /\ options.tagPrefix = <<"G", "/">>
  /\ arg.genres = <<GenreNoir, GenreSciFi>>
  /\ result[Len(result)]
       = LitTags \o <<"#", "G", "/", "n", "-", "o", " ",
                      "#", "G", "/", "s", "c", "i", "-", "f", "i">>


(* C20: the frontmatter starts and ends with a "---" line, its second line  *)
(* is "title: Kavita Annotations", its last but one an "updated:" line with *)
(* a 24-character timestamp, and between them stand "tags:",                *)
(* "  - annotations" and "  - kavita" exactly when includeTags is true,     *)
(* whatever the tag prefix is.                                              *)
C20_Frontmatter ==
  Called("generateFrontmatter") =>
    LET ls == Lines(result)
        n == Len(ls)
    IN /\ n = FrontmatterLength
       /\ ls[1] = LitRule
       /\ ls[2] = LitFmTitle
       /\ SubSeq(ls, 3, n - 2)
            = IF options.includeTags
              THEN <<LitFmTags, <<" ", " ", "-", " ">> \o <<"a", "n", "n", "o", "t", "a", "t", "i", "o", "n", "s">>,
                     <<" ", " ", "-", " ">> \o <<"k", "a", "v", "i", "t", "a">> >>
              ELSE <<>>
       /\ StartsWith(ls[n - 1], LitFmUpdated)
       /\ Len(ls[n - 1]) = Len(LitFmUpdated) + 24
       /\ ls[n] = LitRule

\* tags are included under a tag prefix, and the two tags carry no prefix
C20_Witness ==
  /\ Called("generateFrontmatter")
  /\ options.includeTags
  /\ options.tagPrefix # <<>>
  /\ Lines(result)[4] = LitFmTagAnnotations
  /\ Lines(result)[5] = LitFmTagKavita

----------------------------------------------------------------------------
(* The series header (specification SpecParts). *)

(* C19: the series header is "## <name>", then "**Series:** [[<name>]]"     *)
(* exactly when includeWikilinks is true, then "**Library:** <library>",    *)
(* the names being those getSeriesName and getLibraryName return; it has no *)
(* "**Author:**", "**Genres:**" or "**Tags:**" line, series metadata with   *)
(* writers and genres supplied or not.                                      *)
C19_SeriesHeader ==
  Called("generateSeriesHeader") =>
    LET a == annotations[arg.index]
    IN /\ result
            = <<LitH2 \o getSeriesName(a)>>
                \o (IF options.includeWikilinks
                    THEN <<LitSeriesLink \o <<"[", "[">> \o getSeriesName(a) \o <<"]", "]">> >>
                    ELSE <<>>)
                \o <<LitLibraryLine \o getLibraryName(a)>>
       /\ \A k \in 1..Len(result) :
            ~(IsAuthorLine(result[k]) \/ IsGenresLine(result[k]) \/ IsTagsLine(result[k]))

\* metadata with writers and genres is supplied, wikilinks are off, and the
\* header is the two lines of a named series and library
C19_Witness ==
  /\ Called("generateSeriesHeader")
  /\ arg.metadata = Some(SeriesMetadata)
  /\ ~options.includeWikilinks
  /\ options.includeTags
  /\ result = <<LitH2 \o <<"N">>, LitLibraryLine \o <<"N">> >>

----------------------------------------------------------------------------
(* Tags on and off (specification SpecDoc). *)

\* the lines ls without the three lines of the frontmatter tags block and
\* without the "**Tags:**" lines
WithoutTags(ls) ==
  LET kept == SelectSeq(Indices(ls),
                        LAMBDA k : k \notin {3, 4, 5} /\ ~IsTagsLine(ls[k]))
  IN [j \in 1..Len(kept) |-> ls[kept[j]]]

(* C18: for the same annotations, chapter info and clock, the document with *)
(* includeTags = false is the document with includeTags = true less the     *)
(* three lines of the frontmatter tags block and less every "**Tags:**"     *)
(* line: all other lines, the "**Author:**" and "**Genres:**" lines among   *)
(* them, are the same and in the same order.                                *)
C18_TagsOffRemovesTagsOnly ==
  (Called("toMarkdown") /\ options.includeTags) =>
    LET ls == Lines(result)
        off == Lines(toMarkdown(annotations, [options EXCEPT !.includeTags = FALSE],
                                chapterInfoMap, clock))
    IN /\ SubSeq(ls, 3, 5) = <<LitFmTags, LitFmTagAnnotations, LitFmTagKavita>>
       /\ off = WithoutTags(ls)
       /\ SelectSeq(off, IsAuthorLine) = SelectSeq(ls, IsAuthorLine)
       /\ SelectSeq(off, IsGenresLine) = SelectSeq(ls, IsGenresLine)
       /\ SelectSeq(off, IsTagsLine) = <<>>

\* a document with two books, each with authors, genres and a tags line
C18_Witness ==
  /\ Called("toMarkdown")
  /\ options.includeTags
  /\ Len(SelectSeq(Lines(result), IsTagsLine)) = 2
  /\ Len(SelectSeq(Lines(result), IsAuthorLine)) = 2
  /\ Len(SelectSeq(Lines(result), IsGenresLine)) = 2


----------------------------------------------------------------------------
(* Calls of toSlug on strings of upper and lower case letters, digits,     *)
(* white space, hyphens and characters a slug drops.                       *)

SlugChars == {"A", "b", "1", " ", "-", "_"}

SlugInputs == SeqsUpTo(SlugChars, MaxSlugLen)

InitSlug ==
  /\ annotations = <<>>
  /\ options = Options(TRUE, TRUE)
  /\ chapterInfoMap = None
  /\ clock = 0
  /\ lastCall = "none"
  /\ arg \in SlugInputs
  /\ result = <<>>
  /\ NoSync

CallToSlug ==
  /\ lastCall = "none"
  /\ lastCall' = "toSlug"
  /\ result' = toSlug(arg)
  /\ UNCHANGED <<annotations, options, chapterInfoMap, clock, arg>>
  /\ UNCHANGED syncVars

NextSlug == CallToSlug

SpecSlug == InitSlug /\ [][NextSlug]_vars

\* the characters a slug may hold: a-z, 0-9 and the hyphen
IsCleanSlugChar(c) ==
  \/ \E i \in 1..26 : LowerChars[i] = c
  \/ IsDigit(c)
  \/ c = "-"

\* C22: toSlug returns a value for every string, and that value is a fixed
\* point of toSlug, holds only characters of [a-z0-9-], neither starts nor
\* ends with a hyphen and holds no two hyphens in a row.
C22_SlugIdempotentAndClean ==
  lastCall = "toSlug" =>
    /\ result \in Seq(SlugChars \cup {"a"})
    /\ toSlug(result) = result
    /\ \A i \in 1..Len(result) : IsCleanSlugChar(result[i])
    /\ result # <<>> => result[1] # "-" /\ result[Len(result)] # "-"
    /\ \A i \in 1..(Len(result) - 1) : ~(result[i] = "-" /\ result[i + 1] = "-")

\* a string with upper case, white space next to a hyphen and a trailing
\* dropped character has been slugged
C22_Witness ==
  /\ lastCall = "toSlug"
  /\ arg = <<"A", " ", "-", "b">>
  /\ result = <<"a", "-", "b">>


----------------------------------------------------------------------------
----------------------------------------------------------------------------
(* C28: for a non-empty list the document holds, for every annotation,     *)
(* omitted or not, the chapter header of its chapter under the book header *)
(* of its book under the series header of its series, and no line of the   *)
(* document is "*No annotations found.*"; when every annotation is omitted *)
(* the document holds those headers and no annotation block.               *)
C28_HeadersOfOmittedGroups ==
  (Called("toMarkdown") /\ annotations # <<>>) =>
    LET ls == Lines(result)
    IN /\ \A i \in 1..Len(annotations) :
            \E h \in 1..Len(ls) :
              /\ ls[h] = ChapterHeaderOf(annotations[i])
              /\ BookLineAt(ls, h) = BookHeaderOf(annotations[i])
              /\ SeriesLineAt(ls, h) = SeriesHeaderOf(annotations[i])
       /\ \A k \in 1..Len(ls) : ls[k] # LitNoAnnotations
       /\ Rendered = {} => BlockStarts(ls) = <<>>

\* a list of two spoilers in two chapters, spoilers omitted: both chapter
\* headers are in the document and no block is
C28_Witness ==
  /\ Called("toMarkdown")
  /\ ~options.includeSpoilers
  /\ Len(annotations) = 2
  /\ Spoilers = {1, 2}
  /\ annotations[1].chapterId # annotations[2].chapterId
  /\ Len(Where(Lines(result), IsChapterHeader)) = 2
  /\ Len(Where(Lines(result), IsSeriesHeader)) = 1
  /\ BlockStarts(Lines(result)) = <<>>


----------------------------------------------------------------------------
(* Documents of annotations whose name fields differ within one series and *)
(* within one chapter (specification SpecFirst).                           *)

\* the series name, chapter title and library name of one annotation
NameBundles ==
  { <<None, None, None>>,
    <<Some(<<"N">>), Some(<<"T">>), Some(<<"L">>)>>,
    <<Some(<<"M">>), Some(<<"U">>), Some(<<"K">>)>> }

FirstShapes ==
  { Named(Annotation(sc[1], sc[2], Some(<<"x">>), None, 0, FALSE), n[1], n[2], n[3]) :
      sc \in {<<1, 1>>, <<1, 2>>, <<2, 1>>}, n \in NameBundles }

\* no map (the book title is the series name of each annotation), or a map
\* that puts both chapters in book "B"
FirstMaps == {None, Some([c \in ChapterIds |-> ChapterInfo(c, <<"B">>, 0)])}

InitFirst ==
  /\ annotations \in ListsOf(FirstShapes)
  /\ options \in { OptionsOf(TRUE, TRUE, FALSE, <<>>, links) : links \in BOOLEAN }
  /\ chapterInfoMap \in FirstMaps
  /\ NoCall

NextFirst == CallToMarkdown

SpecFirst == InitFirst /\ [][NextFirst]_vars

\* the first annotation, in list order, of the series of annotations[i]
FirstOfSeries(i) ==
  annotations[CHOOSE j \in 1..i :
                /\ annotations[j].seriesId = annotations[i].seriesId
                /\ \A k \in 1..(j - 1) : annotations[k].seriesId # annotations[i].seriesId]

\* whether annotations[j] and annotations[i] are of one chapter group: the
\* same series, book title and chapter id
SameChapterGroup(j, i) ==
  /\ annotations[j].seriesId = annotations[i].seriesId
  /\ getBookTitle(annotations[j], chapterInfoMap) = getBookTitle(annotations[i], chapterInfoMap)
  /\ annotations[j].chapterId = annotations[i].chapterId

\* the first annotation, in list order, of the chapter group of annotations[i]
FirstOfChapter(i) ==
  annotations[CHOOSE j \in 1..i :
                /\ SameChapterGroup(j, i)
                /\ \A k \in 1..(j - 1) : ~SameChapterGroup(k, i)]

(* C30: the document has one series header per series id and one chapter    *)
(* header per chapter group; the header block of each annotation's series   *)
(* shows the series name and library name of the first annotation of that   *)
(* series in list order, and the header of its chapter group the chapter    *)
(* title of the first annotation of that group, whatever the names of the   *)
(* later annotations of the group are.                                      *)
C30_HeadersFromFirstAnnotation ==
  (Called("toMarkdown") /\ annotations # <<>>) =>
    LET ls == Lines(result)
        all == 1..Len(annotations)
    IN /\ Len(Where(ls, IsSeriesHeader))
            = Cardinality({annotations[i].seriesId : i \in all})
       /\ Len(Where(ls, IsChapterHeader))
            = Cardinality({ <<annotations[i].seriesId,
                              getBookTitle(annotations[i], chapterInfoMap),
                              annotations[i].chapterId>> : i \in all })
       /\ \A i \in all :
            \E h \in 1..Len(ls) :
              /\ ls[h] = LitH4Chapter \o getChapterTitle(FirstOfChapter(i))
              /\ BookLineAt(ls, h) = BookHeaderOf(annotations[i])
              /\ LET first == FirstOfSeries(i)
                     s == CHOOSE k \in 1..h :
                            /\ IsSeriesHeader(ls[k])
                            /\ \A m \in (k + 1)..h : ~IsSeriesHeader(ls[m])
                     n == IF options.includeWikilinks THEN 2 ELSE 1
                 IN /\ ls[s] = LitH2 \o getSeriesName(first)
                    /\ options.includeWikilinks =>
                         ls[s + 1] = LitSeriesLink \o makeWikilink(getSeriesName(first))
                    /\ ls[s + n] = LitLibraryLine \o getLibraryName(first)

\* two annotations of one chapter of one book whose three names all differ:
\* the headers show the names of the first and none of the second
C30_Witness ==
  /\ Called("toMarkdown")
  /\ Len(annotations) = 2
  /\ chapterInfoMap # None
  /\ annotations[1].seriesId = annotations[2].seriesId
  /\ annotations[1].chapterId = annotations[2].chapterId
  /\ annotations[1].seriesName = Some(<<"M">>)
  /\ annotations[2].seriesName = Some(<<"N">>)
  /\ annotations[1].chapterTitle = Some(<<"U">>)
  /\ annotations[2].chapterTitle = Some(<<"T">>)
  /\ SelectSeq(Lines(result), IsSeriesHeader) = <<LitH2 \o <<"M">> >>
  /\ SelectSeq(Lines(result), IsChapterHeader) = <<LitH4Chapter \o <<"U">> >>
  /\ \E k \in 1..Len(Lines(result)) : Lines(result)[k] = LitLibraryLine \o <<"K">>
  /\ \A k \in 1..Len(Lines(result)) : Lines(result)[k] # LitLibraryLine \o <<"L">>


----------------------------------------------------------------------------
(* The sync (AnnotationSyncer.syncToFile, ObsidianAdapter.writeFile).  A    *)
(* run is one execution of syncToFile; it advances from one await to the   *)
(* next: pc is "annotations" while the annotation list is being fetched,   *)
(* "metadata" and "volumes" while the per-series requests are made, one    *)
(* series id at a time, "render" when all has been fetched, "writing"      *)
(* while vault.modify or vault.create is in flight, and "done" or "failed" *)
(* at the end.  In the specifications of the sync the variable options     *)
(* holds the plugin configuration: the format options and the output path. *)
(* The fields fetched, requests, failedFetches and before of a run record  *)
(* what happened to it; the code keeps no such record.                     *)

\* "old": what a file holds that was not written by a sync
LitOld == <<"o", "l", "d">>

\* "Volume "
LitVolume == <<"V", "o", "l", "u", "m", "e", " ">>

ConfigOf(outputPath, spoilers) ==
  [includeComments |-> TRUE, includeSpoilers |-> spoilers, includeTags |-> FALSE,
   tagPrefix |-> <<>>, includeWikilinks |-> FALSE, outputPath |-> outputPath]

\* the options object syncToFile hands to toMarkdown
FormatOf(config) ==
  [includeComments |-> config.includeComments,
   includeSpoilers |-> config.includeSpoilers,
   includeTags |-> config.includeTags,
   tagPrefix |-> config.tagPrefix,
   includeWikilinks |-> config.includeWikilinks]

\* the annotation lists the server may return: none, one, one and a
\* spoiler of another chapter, and two series, the higher id first
ServerLists ==
  { <<>>,
    <<Annotation(1, 1, Some(<<"x">>), None, 0, FALSE)>>,
    <<Annotation(1, 1, Some(<<"x">>), None, 0, FALSE),
      Annotation(1, 2, Some(<<"y">>), None, 0, TRUE)>>,
    <<Annotation(2, 3, Some(<<"x">>), None, 0, FALSE),
      Annotation(1, 1, Some(<<"x">>), None, 0, FALSE)>> }

\* the volumes of a series the server knows: series 1 has a named volume
\* and an unnamed one whose chapter has a title name, series 2 an unnamed
\* volume
ServerVolumes(seriesId) ==
  IF seriesId = 1
  THEN <<[number |-> 2, name |-> Some(<<"B">>),
          chapters |-> <<[id |-> 1, titleName |-> None]>>],
         [number |-> 1, name |-> None,
          chapters |-> <<[id |-> 2, titleName |-> Some(<<"T">>)]>>]>>
  ELSE <<[number |-> 1, name |-> None,
          chapters |-> <<[id |-> 3, titleName |-> None]>>]>>

\* [...new Set(annotations.map((a) => a.seriesId))]
UniqueSeriesIds(anns) == FirstSeen([i \in 1..Len(anns) |-> anns[i].seriesId])

\* the entries fetchChapterInfo pushes for the volumes of one series
ChapterEntries(volumes) ==
  Concat([v \in 1..Len(volumes) |->
            [c \in 1..Len(volumes[v].chapters) |->
               LET chapter == volumes[v].chapters[c]
                   bookTitle == OrElse(chapter.titleName,
                                       OrElse(volumes[v].name,
                                              LitVolume \o Digits(volumes[v].number)))
               IN <<chapter.id, ChapterInfo(chapter.id, bookTitle, volumes[v].number)>>]])

RECURSIVE PutAll(_, _)
\* new Map(entries) built on top of map: a later entry of a key replaces an
\* earlier one
PutAll(map, entries) ==
  IF entries = <<>> THEN map
  ELSE PutAll([k \in DOMAIN map \cup {Head(entries)[1]} |->
                 IF k = Head(entries)[1] THEN Head(entries)[2] ELSE map[k]],
              Tail(entries))

InitSync ==
  /\ annotations = <<>>
  /\ options \in {ConfigOf(p, FALSE) : p \in Paths}
  /\ chapterInfoMap = None
  /\ clock = 0
  /\ lastCall = "none"
  /\ arg = 0
  /\ result = <<>>
  /\ vault \in [Paths -> {None, Some(LitOld)}]
  /\ run = [r \in Runs |-> IdleRun]
  /\ started = 0

\* the sync command is run: syncToFile starts by requesting the annotations
Start(r) ==
  /\ run[r].pc \in {"idle", "done", "failed"}
  /\ started < MaxSyncs
  /\ started' = started + 1
  /\ run' = [run EXCEPT ![r] = [IdleRun EXCEPT !.pc = "annotations",
                                               !.before = vault[options.outputPath]]]
  /\ UNCHANGED vault
  /\ UNCHANGED formatterVars

\* what a run becomes when the loops over the series ids reach their end
AfterRequest(rec) ==
  IF rec.next <= Len(rec.seriesIds) THEN rec
  ELSE IF rec.pc = "metadata" THEN [rec EXCEPT !.pc = "volumes", !.next = 1]
  ELSE [rec EXCEPT !.pc = "render"]


\* mutant of FetchAllAnnotations: a failed fetch is taken for an empty list
FetchAllAnnotations_Swallow(r) ==
  /\ run[r].pc = "annotations"
  /\ \/ \E list \in ServerLists :
          run' = [run EXCEPT ![r] =
                    AfterRequest(AfterRequest(
                      [@ EXCEPT !.pc = "metadata", !.fetched = TRUE,
                                !.annotations = list,
                                !.seriesIds = UniqueSeriesIds(list),
                                !.next = 1]))]
     \/ run' = [run EXCEPT ![r] = [@ EXCEPT !.pc = "render"]]
  /\ UNCHANGED <<vault, started>>
  /\ UNCHANGED formatterVars

\* const annotations = yield* kavita.fetchAllAnnotations, followed by the
\* unique series ids: the request returns a list, or fails and the run
\* fails with its error
FetchAllAnnotations(r) ==
  /\ run[r].pc = "annotations"
  /\ \/ \E list \in ServerLists :
          run' = [run EXCEPT ![r] =
                    AfterRequest(AfterRequest(
                      [@ EXCEPT !.pc = "metadata", !.fetched = TRUE,
                                !.annotations = list,
                                !.seriesIds = UniqueSeriesIds(list),
                                !.next = 1]))]
     \/ run' = [run EXCEPT ![r] = [@ EXCEPT !.pc = "failed",
                                            !.error = "KavitaNetworkError",
                                            !.cause = "annotations"]]
  /\ UNCHANGED <<vault, started>>
  /\ UNCHANGED formatterVars

\* one turn of the loop of fetchSeriesMetadata: getSeriesMetadata(seriesId)
\* piped through Effect.option returns the metadata, or fails, and the
\* failure becomes Option.none
FetchSeriesMetadata(r) ==
  /\ run[r].pc = "metadata"
  /\ LET seriesId == run[r].seriesIds[run[r].next]
         asked == [run[r] EXCEPT !.next = @ + 1, !.requests = @ + 1]
     IN \/ run' = [run EXCEPT ![r] =
                     AfterRequest([asked EXCEPT !.metadataMap =
                                     PutAll(@, <<<<seriesId, SeriesMetadata>>>>)])]
        \/ run' = [run EXCEPT ![r] =
                     AfterRequest([asked EXCEPT !.failedFetches =
                                     @ \cup {<<"metadata", seriesId>>}])]
  /\ UNCHANGED <<vault, started>>
  /\ UNCHANGED formatterVars

\* one turn of the loop of fetchChapterInfo: getVolumes(seriesId) piped
\* through Effect.option returns the volumes of the series (none when the
\* server knows of none), or fails, and the failure becomes Option.none
FetchChapterInfo(r) ==
  /\ run[r].pc = "volumes"
  /\ LET seriesId == run[r].seriesIds[run[r].next]
         asked == [run[r] EXCEPT !.next = @ + 1, !.requests = @ + 1]
     IN \/ \E volumes \in {ServerVolumes(seriesId), <<>>} :
             run' = [run EXCEPT ![r] =
                       AfterRequest([asked EXCEPT !.chapterInfoMap =
                                       PutAll(@, ChapterEntries(volumes))])]
        \/ run' = [run EXCEPT ![r] =
                     AfterRequest([asked EXCEPT !.failedFetches =
                                     @ \cup {<<"volumes", seriesId>>}])]
  /\ UNCHANGED <<vault, started>>
  /\ UNCHANGED formatterVars

\* the document is rendered and writeFile looks the path up: it calls
\* vault.modify when a file is there and vault.create when none is
WriteFile(r) ==
  /\ run[r].pc = "render"
  /\ \E now \in clock..MaxClock :
       /\ clock' = now
       /\ run' = [run EXCEPT ![r] =
                    [@ EXCEPT !.pc = "writing",
                              !.markdown = toMarkdown(run[r].annotations,
                                                      FormatOf(options),
                                                      Some(run[r].chapterInfoMap),
                                                      now),
                              !.operation = IF IsSome(vault[options.outputPath])
                                            THEN "modify" ELSE "create"]]
  /\ UNCHANGED <<vault, started>>
  /\ UNCHANGED <<annotations, options, chapterInfoMap, lastCall, arg, result>>

\* what syncToFile returns
SyncResult(r) ==
  [count |-> Len(run[r].annotations), outputPath |-> options.outputPath]

\* mutant of VaultSettles: modify appends to what the file holds
VaultSettles_Appends(r) ==
  /\ run[r].pc = "writing"
  /\ \/ /\ vault' = [vault EXCEPT ![options.outputPath] =
                       IF IsSome(@) THEN Some(Value(@) \o run[r].markdown)
                       ELSE Some(run[r].markdown)]
        /\ run' = [run EXCEPT ![r] = [@ EXCEPT !.pc = "done",
                                               !.returned = Some(SyncResult(r))]]
     \/ /\ run' = [run EXCEPT ![r] = [@ EXCEPT !.pc = "failed",
                                               !.error = "ObsidianWriteError",
                                               !.cause = "io"]]
        /\ UNCHANGED vault
  /\ UNCHANGED started
  /\ UNCHANGED formatterVars

\* mutant of VaultSettles: the count is that of the annotations shown
VaultSettles_CountsShown(r) ==
  /\ run[r].pc = "writing"
  /\ \/ /\ vault' = [vault EXCEPT ![options.outputPath] = Some(run[r].markdown)]
        /\ run' = [run EXCEPT ![r] =
                     [@ EXCEPT !.pc = "done",
                               !.returned =
                                 Some([count |-> Len(BlockStarts(Lines(run[r].markdown))),
                                       outputPath |-> options.outputPath])]]
     \/ /\ run' = [run EXCEPT ![r] = [@ EXCEPT !.pc = "failed",
                                               !.error = "ObsidianWriteError",
                                               !.cause = "io"]]
        /\ UNCHANGED vault
  /\ UNCHANGED started
  /\ UNCHANGED formatterVars

\* vault.modify or vault.create settles and syncToFile ends.  The write
\* replaces the content of the file, or is rejected and writeFile fails
\* with ObsidianWriteError.  vault.create on a path that has come to hold a
\* file since the lookup is rejected by a vault that refuses to create over
\* a file and replaces the content in a vault that does not.
VaultSettles(r) ==
  /\ run[r].pc = "writing"
  /\ \/ /\ vault' = [vault EXCEPT ![options.outputPath] = Some(run[r].markdown)]
        /\ run' = [run EXCEPT ![r] = [@ EXCEPT !.pc = "done",
                                               !.returned = Some(SyncResult(r))]]
     \/ /\ run[r].operation = "create"
        /\ IsSome(vault[options.outputPath])
        /\ run' = [run EXCEPT ![r] = [@ EXCEPT !.pc = "failed",
                                               !.error = "ObsidianWriteError",
                                               !.cause = "exists"]]
        /\ UNCHANGED vault
     \/ /\ run' = [run EXCEPT ![r] = [@ EXCEPT !.pc = "failed",
                                               !.error = "ObsidianWriteError",
                                               !.cause = "io"]]
        /\ UNCHANGED vault
  /\ UNCHANGED started
  /\ UNCHANGED formatterVars

\* one syncToFile at a time, one run after the other
NextSync ==
  \/ Start(1)
  \/ FetchAllAnnotations(1)
  \/ FetchSeriesMetadata(1)
  \/ FetchChapterInfo(1)
  \/ WriteFile(1)
  \/ VaultSettles(1)

SpecSync == InitSync /\ [][NextSync]_vars

\* the sync command run while a sync is in flight: index.ts starts a run
\* per click and holds no lock
NextOverlap ==
  \E r \in Runs :
    \/ Start(r)
    \/ FetchAllAnnotations(r)
    \/ FetchSeriesMetadata(r)
    \/ FetchChapterInfo(r)
    \/ WriteFile(r)
    \/ VaultSettles(r)

\* the output path is the default one and holds no file or an old one
InitOverlap ==
  /\ InitSync
  /\ options.outputPath = "kavita-annotations.md"
  /\ vault["notes.md"] = None

SpecOverlap == InitOverlap /\ [][NextOverlap]_vars

----------------------------------------------------------------------------
(* C24 as claimed: once a per-series metadata or volume request of a run   *)
(* has failed, the run has failed as well and calls neither vault.modify   *)
(* nor vault.create: it does not go on to render and write a document.     *)
C24_FetchFailureAborts ==
  \A r \in Runs :
    run[r].failedFetches # {} =>
      /\ run[r].pc = "failed"
      /\ run[r].operation = "none"

(* C25: a run whose annotation fetch has not succeeded has made no         *)
(* metadata or volume request, has rendered nothing, has called neither    *)
(* vault.modify nor vault.create and has left the file at the output path  *)
(* as it was when the run started; when that fetch fails the run fails     *)
(* with the error of the fetch and returns nothing.                        *)
C25_NothingBeforeAnnotations ==
  \A r \in Runs :
    (run[r].pc # "idle" /\ ~run[r].fetched) =>
      /\ run[r].pc \in {"annotations", "failed"}
      /\ run[r].requests = 0
      /\ run[r].markdown = <<>>
      /\ run[r].operation = "none"
      /\ vault[options.outputPath] = run[r].before
      /\ run[r].pc = "failed" =>
           /\ run[r].error = "KavitaNetworkError"
           /\ run[r].cause = "annotations"
           /\ run[r].returned = None

\* the second run has failed to fetch the annotations and the file still
\* holds the document of the first run
C25_Witness ==
  /\ started = 2
  /\ run[1].pc = "failed"
  /\ ~run[1].fetched
  /\ run[1].error = "KavitaNetworkError"
  /\ IsSome(vault[options.outputPath])
  /\ vault[options.outputPath] # Some(LitOld)
  /\ vault[options.outputPath] = run[1].before

\* the document of the annotations, chapter info and clock reading of run r
DocumentOf(r) ==
  toMarkdown(run[r].annotations, FormatOf(options), Some(run[r].chapterInfoMap), clock)

(* C26: when a run of a sequence of runs has ended successfully, the file  *)
(* at the output path holds exactly the document of the annotation list    *)
(* that run fetched, whether the path held no file, an old file or the     *)
(* document of an earlier run.                                             *)
C26_FileIsLatestDocument ==
  \A r \in Runs :
    run[r].pc = "done" => vault[options.outputPath] = Some(DocumentOf(r))

\* the second run has replaced the longer document of the first run with
\* the document of the empty list
C26_Witness ==
  /\ started = 2
  /\ run[1].pc = "done"
  /\ run[1].annotations = <<>>
  /\ IsSome(run[1].before)
  /\ run[1].before # Some(LitOld)
  /\ Len(Value(run[1].before)) > Len(Value(vault[options.outputPath]))
  /\ Includes(Value(run[1].before), LitH2)
  /\ ~Includes(Value(vault[options.outputPath]), LitH2)

(* C27: a run returns a result when it ends successfully and only then;    *)
(* its count is the length of the annotation list the run fetched and its  *)
(* outputPath the configured output path, which is the one path of the     *)
(* vault the run has written its document to.                              *)
C27_SyncResult ==
  \A r \in Runs :
    /\ run[r].pc # "done" => run[r].returned = None
    /\ run[r].pc = "done" =>
         /\ IsSome(run[r].returned)
         /\ Value(run[r].returned).count = Len(run[r].annotations)
         /\ Value(run[r].returned).outputPath = options.outputPath
         /\ vault[Value(run[r].returned).outputPath] = Some(run[r].markdown)
         /\ \A p \in Paths \ {options.outputPath} : vault[p] \in {None, Some(LitOld)}

\* two annotations fetched, one of them omitted as a spoiler: the count is
\* 2 and the document at the configured path shows one block
C27_Witness ==
  /\ run[1].pc = "done"
  /\ options.outputPath = "notes.md"
  /\ Len(run[1].annotations) = 2
  /\ run[1].annotations[2].containsSpoiler
  /\ run[1].returned = Some([count |-> 2, outputPath |-> "notes.md"])
  /\ Len(BlockStarts(Lines(Value(vault["notes.md"])))) = 1
  /\ vault["kavita-annotations.md"] = None

(* C29 as claimed: of two runs that overlap on one output path neither     *)
(* fails because the file has come to exist, and when both have ended the  *)
(* file holds the whole document of one of them.                           *)
C29_OverlapBothSucceed ==
  /\ \A r \in Runs : run[r].cause # "exists"
  /\ (\A r \in Runs : run[r].pc = "done") =>
       \E r \in Runs : vault[options.outputPath] = Some(run[r].markdown)

============================================================================
